---- MODULE Spec2Model ----
(***************************************************************************)
(* PTM (Polynomial Texture Map) decoder of the RTI viewer.                 *)
(*                                                                         *)
(* The repository holds two revisions of PTMParser that share parse() and  *)
(* differ in parseUncompressedPTM: the "interleaved" one (9 or 18 bytes    *)
(* per pixel) and the "planar" one.  The variable `variant` selects the    *)
(* revision; everything else is the state of one call of parse(buffer).    *)
(*                                                                         *)
(* Strings are sequences of character codes, the buffer is a sequence of   *)
(* bytes (JS index i is element i+1).  JS numbers are exact rationals or   *)
(* NaN; Float32 rounding is not modelled.                                  *)
(*                                                                         *)
(* The specifications share the variables:                                 *)
(*   Spec             one call of PTMParser.parse(buffer)                  *)
(*   SpecTermination  the same call under weak fairness of its steps       *)
(*   SpecRows         parseUncompressedPTM split into two row ranges       *)
(*   SpecNormals      PTMParser.computeNormals on given coefficient planes *)
(*   SpecPack         RTIRenderer.createCoefficientTextures on an image    *)
(*   SpecLight        RTIRenderer.setLightDirection                        *)
(*   SpecRender       RTIRenderer: loadPTM, the setters and the shader     *)
(*   SpecApp          RTIViewerApp: loads, initViewer and the controls     *)
(***************************************************************************)
EXTENDS Integers, Sequences, FiniteSets, TLC

VARIABLES variant, buffer, pc, offset, headerLines, currentLine,
          version, format, width, height, scale, bias,
          coefficients, rgb, normals, error

\* the renderer's coefficient ranges and the two packed coefficient textures,
\* its base colour texture and its normal texture
VARIABLES coeffRanges, coeff0Data, coeff1Data, rgbaData, normalData

packVars == <<coeffRanges, coeff0Data, coeff1Data, rgbaData, normalData>>

\* RTIViewerApp: the loads started so far (in start order, a load's index
\* identifies its image), the renderer the app refers to (0 is null, else the
\* number of the object) with that object's fields, and the page elements
VARIABLES loads, renderer, rendererObj, initViewerCalls,
          imageDimensions, imageFormat,
          lightXDisplay, lightYDisplay, lightIndicator,
          activeMode, specularSlider, specularValue, diffuseSlider, diffuseValue,
          section, loadingOverlay, alertText, isDragging

appVars == <<loads, renderer, rendererObj, initViewerCalls,
             imageDimensions, imageFormat,
             lightXDisplay, lightYDisplay, lightIndicator,
             activeMode, specularSlider, specularValue, diffuseSlider, diffuseValue,
             section, loadingOverlay, alertText, isDragging>>

parserVars == <<variant, buffer, pc, offset, headerLines, currentLine,
                version, format, width, height, scale, bias,
                coefficients, rgb, normals, error>>

vars == <<parserVars, packVars, appVars>>

(***************************************************************************)
(* Bounds of the inputs                                                    *)
(***************************************************************************)
MaxWidth == 3
MaxHeight == 2
ExtraBytes == 36

(***************************************************************************)
(* JS numbers                                                              *)
(***************************************************************************)
RECURSIVE GCD(_, _)
GCD(a, b) == IF b = 0 THEN a ELSE GCD(b, a % b)

Abs(n) == IF n < 0 THEN 0 - n ELSE n

NaN == [nan |-> TRUE, n |-> 0, d |-> 1]

Rat(n, d) ==
    LET g == GCD(Abs(n), d)
    IN  [nan |-> FALSE, n |-> n \div g, d |-> d \div g]

Num(n) == Rat(n, 1)

IsNaN(a) == a.nan

Add(a, b) == IF a.nan \/ b.nan THEN NaN ELSE Rat(a.n * b.d + b.n * a.d, a.d * b.d)

Sub(a, b) == IF a.nan \/ b.nan THEN NaN ELSE Rat(a.n * b.d - b.n * a.d, a.d * b.d)

Mul(a, b) == IF a.nan \/ b.nan THEN NaN ELSE Rat(a.n * b.n, a.d * b.d)

DivInt(a, k) == IF a.nan THEN NaN ELSE Rat(a.n, a.d * k)

\* a >= 1 (false for NaN)
AtLeastOne(a) == ~a.nan /\ a.n >= a.d

Sign(a) == IF a.n > 0 THEN 1 ELSE IF a.n < 0 THEN 0 - 1 ELSE 0

\* A number of the form  sgn * sqrt(sq)  with sq a non-negative rational:
\* the values computeNormals produces with Math.sqrt.
Surd(s, q) == [nan |-> FALSE, sgn |-> IF q.n = 0 THEN 0 ELSE s, sq |-> q]

SurdNaN == [nan |-> TRUE, sgn |-> 0, sq |-> Num(0)]

\* the rational a as a surd
SurdOf(a) == IF a.nan THEN SurdNaN ELSE Surd(Sign(a), Mul(a, a))

\* a / Math.sqrt(q) for q > 0
OverSqrt(a, q) ==
    IF a.nan \/ q.nan THEN SurdNaN
    ELSE Surd(Sign(a), Rat((a.n * a.n) * q.d, (a.d * a.d) * q.n))

\* Math.sqrt(a): NaN for NaN and for a negative number
Sqrt(a) == IF a.nan \/ a.n < 0 THEN SurdNaN ELSE Surd(1, a)

(***************************************************************************)
(* Characters and string helpers                                           *)
(***************************************************************************)
LF == 10
CR == 13
Dot == 46
Minus == 45
Plus == 43

WhiteSpace == {9, 10, 11, 12, 13, 32, 160}

IsDigit(c) == c \in 48..57

RECURSIVE TrimStart(_)
TrimStart(s) ==
    IF s # <<>> /\ Head(s) \in WhiteSpace THEN TrimStart(Tail(s)) ELSE s

RECURSIVE TrimEnd(_)
TrimEnd(s) ==
    IF s # <<>> /\ s[Len(s)] \in WhiteSpace
    THEN TrimEnd(SubSeq(s, 1, Len(s) - 1))
    ELSE s

Trim(s) == TrimEnd(TrimStart(s))

\* a test for the prefix anywhere in the string (includes for startsWith)
StartsWith_Includes(s, p) ==
    \E i \in 1..(Len(s) - Len(p) + 1) : SubSeq(s, i, i + Len(p) - 1) = p

StartsWith(s, p) == Len(s) >= Len(p) /\ SubSeq(s, 1, Len(p)) = p

RECURSIVE LeadingDigits(_)
LeadingDigits(s) ==
    IF s # <<>> /\ IsDigit(Head(s))
    THEN <<Head(s)>> \o LeadingDigits(Tail(s))
    ELSE <<>>

RECURSIVE DigitsValue(_)
DigitsValue(s) ==
    IF s = <<>> THEN 0
    ELSE 10 * DigitsValue(SubSeq(s, 1, Len(s) - 1)) + (s[Len(s)] - 48)

RECURSIVE Pow10(_)
Pow10(k) == IF k = 0 THEN 1 ELSE 10 * Pow10(k - 1)

\* parseInt(str) with no radix: optional white space, optional sign, the
\* longest run of decimal digits; NaN when there is no digit.  (The 0x
\* prefix is not modelled: no enumerated header line has one.)
ParseInt(str) ==
    LET t    == TrimStart(str)
        neg  == t # <<>> /\ Head(t) = Minus
        body == IF t # <<>> /\ Head(t) \in {Minus, Plus} THEN Tail(t) ELSE t
        ds   == LeadingDigits(body)
    IN  IF ds = <<>> THEN NaN
        ELSE Num(IF neg THEN 0 - DigitsValue(ds) ELSE DigitsValue(ds))

\* Number(str) for decimal literals: "" is 0, [sign] digits [. digits],
\* anything else NaN.  (Exponents, hex and Infinity are not modelled: no
\* enumerated header line has one.)
ToNumber(str) ==
    LET t    == Trim(str)
        neg  == t # <<>> /\ Head(t) = Minus
        body == IF t # <<>> /\ Head(t) \in {Minus, Plus} THEN Tail(t) ELSE t
        ip   == LeadingDigits(body)
        rest == SubSeq(body, Len(ip) + 1, Len(body))
        fp   == IF rest = <<>> THEN <<>> ELSE Tail(rest)
        sgn  == IF neg THEN 0 - 1 ELSE 1
    IN  IF t = <<>> THEN Num(0)
        ELSE IF rest = <<>>
             THEN IF ip = <<>> THEN NaN ELSE Num(sgn * DigitsValue(ip))
        ELSE IF Head(rest) = Dot /\ LeadingDigits(fp) = fp /\ Len(ip) + Len(fp) > 0
             THEN Rat(sgn * (DigitsValue(ip) * Pow10(Len(fp)) + DigitsValue(fp)),
                      Pow10(Len(fp)))
        ELSE NaN

\* the characters of s before its first white-space character
RECURSIVE FirstToken(_)
FirstToken(s) ==
    IF s = <<>> \/ Head(s) \in WhiteSpace THEN <<>>
    ELSE <<Head(s)>> \o FirstToken(Tail(s))

\* str.split(/\s+/); a function, so that each remainder is a value when
\* it is split
SplitWhite[s \in Seq(Nat)] ==
    LET tok  == FirstToken(s)
        rest == SubSeq(s, Len(tok) + 1, Len(s))
    IN  IF rest = <<>> THEN <<tok>>
        ELSE <<tok>> \o SplitWhite[TrimStart(rest)]

\* line.split(/\s+/).map(Number)
NumberList(line) ==
    LET Numbers[toks \in Seq(Seq(Nat))] == [i \in 1..Len(toks) |-> ToNumber(toks[i])]
    IN  Numbers[SplitWhite[line]]

\* arr[c] used in arithmetic: a missing element is undefined, which is NaN
At(arr, c) == IF c + 1 \in 1..Len(arr) THEN arr[c + 1] ELSE NaN

(***************************************************************************)
(* Header strings                                                          *)
(***************************************************************************)
\* "PTM_1."
VersionPrefix == <<80, 84, 77, 95, 49, 46>>

\* "PTM_FORMAT_RGB", "PTM_FORMAT_LUM", "PTM_FORMAT_LRGB", ...
PTM_FORMAT_RGB == <<80, 84, 77, 95, 70, 79, 82, 77, 65, 84, 95, 82, 71, 66>>
PTM_FORMAT_LUM == <<80, 84, 77, 95, 70, 79, 82, 77, 65, 84, 95, 76, 85, 77>>
PTM_FORMAT_LRGB == <<80, 84, 77, 95, 70, 79, 82, 77, 65, 84, 95, 76, 82, 71, 66>>
PTM_FORMAT_JPEG_RGB == <<80, 84, 77, 95, 70, 79, 82, 77, 65, 84, 95, 74, 80, 69, 71, 95, 82, 71, 66>>
PTM_FORMAT_JPEG_LRGB == <<80, 84, 77, 95, 70, 79, 82, 77, 65, 84, 95, 74, 80, 69, 71, 95, 76, 82, 71, 66>>
PTM_FORMAT_JPEGLS_RGB == <<80, 84, 77, 95, 70, 79, 82, 77, 65, 84, 95, 74, 80, 69, 71, 76, 83, 95, 82, 71, 66>>
PTM_FORMAT_JPEGLS_LRGB == <<80, 84, 77, 95, 70, 79, 82, 77, 65, 84, 95, 74, 80, 69, 71, 76, 83, 95, 76, 82, 71, 66>>

\* the keys of this.PTM_FORMATS
PTM_FORMATS ==
    {PTM_FORMAT_RGB, PTM_FORMAT_LUM, PTM_FORMAT_LRGB, PTM_FORMAT_JPEG_RGB,
     PTM_FORMAT_JPEG_LRGB, PTM_FORMAT_JPEGLS_RGB, PTM_FORMAT_JPEGLS_LRGB}

\* names every object inherits from Object.prototype: "constructor",
\* "toString", "valueOf", "hasOwnProperty", "isPrototypeOf",
\* "propertyIsEnumerable", "toLocaleString", "__proto__"
ObjectPrototypeKeys ==
    {<<99, 111, 110, 115, 116, 114, 117, 99, 116, 111, 114>>,
     <<116, 111, 83, 116, 114, 105, 110, 103>>,
     <<118, 97, 108, 117, 101, 79, 102>>,
     <<104, 97, 115, 79, 119, 110, 80, 114, 111, 112, 101, 114, 116, 121>>,
     <<105, 115, 80, 114, 111, 116, 111, 116, 121, 112, 101, 79, 102>>,
     <<112, 114, 111, 112, 101, 114, 116, 121, 73, 115, 69, 110, 117, 109, 101, 114, 97, 98, 108, 101>>,
     <<116, 111, 76, 111, 99, 97, 108, 101, 83, 116, 114, 105, 110, 103>>,
     <<95, 95, 112, 114, 111, 116, 111, 95, 95>>}

\* key in this.PTM_FORMATS: own keys and inherited ones
InFormats(key) == key \in PTM_FORMATS \cup ObjectPrototypeKeys

(***************************************************************************)
(* The buffers parse() is called with                                      *)
(***************************************************************************)
\* "PTM_1.2", " PTM_<CR>1.2<CR>" (a leading space and two carriage returns),
\* "PTM_2.0", "XPTM_1.2"
VersionLines ==
    {<<80, 84, 77, 95, 49, 46, 50>>,
     <<32, 80, 84, 77, 95, 13, 49, 46, 50, 13>>,
     <<80, 84, 77, 95, 50, 46, 48>>,
     <<88, 80, 84, 77, 95, 49, 46, 50>>}

\* the seven names of the enumeration, "PTM_FORMAT_XYZ", "constructor" and
\* "toString"
FormatLines ==
    PTM_FORMATS \cup {<<80, 84, 77, 95, 70, 79, 82, 77, 65, 84, 95, 88, 89, 90>>,
                      <<99, 111, 110, 115, 116, 114, 117, 99, 116, 111, 114>>,
                      <<116, 111, 83, 116, 114, 105, 110, 103>>}

DigitLine(n) == <<48 + n>>

\* <<scale line, bias line>>: "1 1 1 1 1 1" / "0 0 0 0 0 0" and
\* "1 2 3 4 5 6" / "6 5 4 3 2 1"
QuantLines ==
    {<<<<49, 32, 49, 32, 49, 32, 49, 32, 49, 32, 49>>,
       <<48, 32, 48, 32, 48, 32, 48, 32, 48, 32, 48>>>>,
     <<<<49, 32, 50, 32, 51, 32, 52, 32, 53, 32, 54>>,
       <<54, 32, 53, 32, 52, 32, 51, 32, 50, 32, 49>>>>}

\* the pixel bytes: byte i of the pixel region is (i^3 + 5) mod 251, which
\* takes a different value at each of the first 251 positions
PixelByte(i) == (i * i * i + 5) % 251

PixelBytes(len) == [i \in 1..len |-> PixelByte(i - 1)]

BytesPerPixelOf(fmt) == IF fmt = PTM_FORMAT_RGB THEN 18 ELSE 9

Required(w, h, fmt) == w * h * BytesPerPixelOf(fmt)

\* lengths of the pixel region: empty, one byte short, complete, with a tail
DataLengths(w, h, fmt) ==
    {0, Required(w, h, fmt) - 1, Required(w, h, fmt), Required(w, h, fmt) + ExtraBytes}

\* six header lines, each ended by a newline
HeaderOf(v, f, wl, hl, q) ==
    v \o <<LF>> \o f \o <<LF>> \o wl \o <<LF>> \o hl \o <<LF>>
      \o q[1] \o <<LF>> \o q[2] \o <<LF>>

HeaderBytes(v, f, w, h, q) == HeaderOf(v, f, DigitLine(w), DigitLine(h), q)

\* <<width line, height line>> that are not both decimal numbers:
\* "x" / "2", "2" / "x", "-1" / "-1", "-1" / "2", "2px" / "1.5"
MalformedDimLines ==
    {<<<<120>>, <<50>>>>,
     <<<<50>>, <<120>>>>,
     <<<<45, 49>>, <<45, 49>>>>,
     <<<<45, 49>>, <<50>>>>,
     <<<<50, 112, 120>>, <<49, 46, 53>>>>}

\* <<scale line, bias line>> with a scale line of three numbers:
\* "1 1 1" / "0 0 0 0 0 0"
ShortQuantLines ==
    {<<<<49, 32, 49, 32, 49>>,
       <<48, 32, 48, 32, 48, 32, 48, 32, 48, 32, 48>>>>}

PlainVersion == <<80, 84, 77, 95, 49, 46, 50>>

PlainQuant ==
    <<<<49, 32, 49, 32, 49, 32, 49, 32, 49, 32, 49>>,
      <<48, 32, 48, 32, 48, 32, 48, 32, 48, 32, 48>>>>

\* LRGB and RGB files whose width or height line is malformed, with no
\* pixel bytes or with a tail of them
MalformedDimBuffers ==
    {HeaderOf(PlainVersion, f, d[1], d[2], PlainQuant) \o PixelBytes(len) :
        <<f, d, len>> \in {PTM_FORMAT_LRGB, PTM_FORMAT_RGB} \X MalformedDimLines
                            \X {0, 2 * ExtraBytes}}

\* complete LRGB and RGB files whose scale line has three numbers
ShortQuantBuffers ==
    {HeaderBytes(PlainVersion, f, w, h, q) \o PixelBytes(Required(w, h, f) + ExtraBytes) :
        <<f, w, h, q>> \in {PTM_FORMAT_LRGB, PTM_FORMAT_RGB} \X (1..MaxWidth)
                            \X (1..MaxHeight) \X ShortQuantLines}

SizedBuffers ==
    {HeaderBytes(v, f, w, h, q) \o PixelBytes(len) :
        <<v, f, w, h, q, len>> \in
            {t \in VersionLines \X FormatLines \X (1..MaxWidth) \X (1..MaxHeight)
                    \X QuantLines \X (0..(MaxWidth * MaxHeight * 18 + ExtraBytes)) :
                t[6] \in DataLengths(t[3], t[4], t[2])}}

Buffers == SizedBuffers \cup MalformedDimBuffers \cup ShortQuantBuffers

Variants == {"interleaved", "planar"}

(***************************************************************************)
(* DataView                                                                *)
(***************************************************************************)
InRange(i) == i >= 0 /\ i < Len(buffer)

getUint8(i) == buffer[i + 1]

\* ToIndex of a JS number that is an integer or NaN
ToIndex(a) == IF a.nan THEN 0 ELSE a.n

(***************************************************************************)
(* parse(buffer): the header                                               *)
(***************************************************************************)
\* an object of RTIRenderer that holds no image
NewRenderer ==
    [ptmData |-> 0, lightX |-> Num(0), lightY |-> Num(0), viewMode |-> "default",
     specularEnhancement |-> Num(1), diffuseGain |-> Num(1), disposed |-> FALSE]

\* the app after its constructor, the page as loaded
AppConstructed ==
    /\ loads = <<>>
    /\ renderer = 0
    /\ rendererObj = NewRenderer
    /\ initViewerCalls = 0
    /\ imageDimensions = 0
    /\ imageFormat = 0
    /\ lightXDisplay = Num(0)
    /\ lightYDisplay = Num(0)
    /\ lightIndicator = [left |-> Num(50), top |-> Num(50)]
    /\ activeMode = "default"
    /\ specularSlider = Num(1)
    /\ specularValue = Num(1)
    /\ diffuseSlider = Num(1)
    /\ diffuseValue = Num(1)
    /\ section = "upload"
    /\ loadingOverlay = FALSE
    /\ alertText = "none"
    /\ isDragging = FALSE

\* no renderer has been given an image
NoRenderer ==
    /\ coeffRanges = <<>>
    /\ coeff0Data = <<>>
    /\ coeff1Data = <<>>
    /\ rgbaData = <<>>
    /\ normalData = <<>>

Init ==
    /\ variant \in Variants
    /\ buffer \in Buffers
    /\ pc = "header"
    /\ offset = 0
    /\ headerLines = <<>>
    /\ currentLine = <<>>
    /\ version = <<>>
    /\ format = <<>>
    /\ width = Num(0)
    /\ height = Num(0)
    /\ scale = <<>>
    /\ bias = <<>>
    /\ coefficients = <<>>
    /\ rgb = <<>>
    /\ normals = <<>>
    /\ error = "none"
    /\ NoRenderer
    /\ AppConstructed

\* an exception that is swallowed where it is raised: parse() stays where
\* it is
Throw_Swallowed(kind) ==
    /\ pc' = pc
    /\ error' = error

\* the exception leaves parse(); nothing is returned
Throw(kind) ==
    /\ pc' = "failed"
    /\ error' = kind

\* the loop with a carriage return ending the line as a newline does
ReadHeaderByte_CREndsLine ==
    /\ pc = "header"
    /\ IF ~InRange(offset)
       THEN /\ Throw("RangeError")
            /\ UNCHANGED <<offset, headerLines, currentLine>>
       ELSE LET byte == getUint8(offset)
                lines == IF byte \in {LF, CR}
                         THEN Append(headerLines, Trim(currentLine))
                         ELSE headerLines
            IN  /\ offset' = offset + 1
                /\ headerLines' = lines
                /\ currentLine' = IF byte \in {LF, CR} THEN <<>>
                                  ELSE Append(currentLine, byte)
                /\ pc' = IF Len(lines) < 6 THEN "header" ELSE "parse"
                /\ error' = error
    /\ UNCHANGED <<appVars, packVars, variant, buffer, version, format, width, height, scale, bias,
                   coefficients, rgb, normals>>

\* one iteration of while (headerLines.length < 6)
ReadHeaderByte ==
    /\ pc = "header"
    /\ IF ~InRange(offset)
       THEN /\ Throw("RangeError")
            /\ UNCHANGED <<offset, headerLines, currentLine>>
       ELSE LET byte == getUint8(offset)
                lines == IF byte = LF
                         THEN Append(headerLines, Trim(currentLine))
                         ELSE headerLines
            IN  /\ offset' = offset + 1
                /\ headerLines' = lines
                /\ currentLine' = IF byte = LF THEN <<>>
                                  ELSE IF byte # CR THEN Append(currentLine, byte)
                                  ELSE currentLine
                /\ pc' = IF Len(lines) < 6 THEN "header" ELSE "parse"
                /\ error' = error
    /\ UNCHANGED <<appVars, packVars, variant, buffer, version, format, width, height, scale, bias,
                   coefficients, rgb, normals>>

\* the version and format checks and the four numeric header lines
ParseHeader ==
    /\ pc = "parse"
    /\ version' = headerLines[1]
    /\ IF ~StartsWith(headerLines[1], VersionPrefix)
       THEN /\ Throw("UnsupportedVersion")
            /\ UNCHANGED <<format, width, height, scale, bias>>
       ELSE /\ format' = headerLines[2]
            /\ IF ~InFormats(headerLines[2])
               THEN /\ Throw("UnsupportedFormat")
                    /\ UNCHANGED <<width, height, scale, bias>>
               ELSE /\ width' = ParseInt(headerLines[3])
                    /\ height' = ParseInt(headerLines[4])
                    /\ scale' = NumberList(headerLines[5])
                    /\ bias' = NumberList(headerLines[6])
                    /\ pc' = "dump"
                    /\ error' = error
    /\ UNCHANGED <<appVars, packVars, variant, buffer, offset, headerLines, currentLine,
                   coefficients, rgb, normals>>

\* the indices read by the two diagnostic dumps: 36 bytes at offset and 18
\* bytes at offset + width * 9
SecondLineStart == Add(Num(offset), Mul(width, Num(9)))

DumpReads ==
    {offset + i : i \in 0..35} \cup
    {ToIndex(Add(SecondLineStart, Num(i))) : i \in 0..17}

DebugDump ==
    /\ pc = "dump"
    /\ IF \A i \in DumpReads : InRange(i)
       THEN pc' = "dispatch" /\ error' = error
       ELSE Throw("RangeError")
    /\ UNCHANGED <<appVars, packVars, variant, buffer, offset, headerLines, currentLine,
                   version, format, width, height, scale, bias,
                   coefficients, rgb, normals>>

\* the branch on format; parseJPEGPTM only throws
Dispatch ==
    /\ pc = "dispatch"
    /\ IF format \in {PTM_FORMAT_LRGB, PTM_FORMAT_RGB}
       THEN pc' = "uncompressed" /\ error' = error
       ELSE IF format \in {PTM_FORMAT_JPEG_LRGB, PTM_FORMAT_JPEG_RGB}
       THEN Throw("JPEGNotSupported")
       ELSE Throw("NotImplemented")
    /\ UNCHANGED <<appVars, packVars, variant, buffer, offset, headerLines, currentLine,
                   version, format, width, height, scale, bias,
                   coefficients, rgb, normals>>

(***************************************************************************)
(* parseUncompressedPTM                                                    *)
(***************************************************************************)
W == width.n
H == height.n

\* the (y, x) the loops  for (y < height) for (x < width)  visit
LoopCount(a) == IF a.nan \/ a.n < 0 THEN 0 ELSE a.n

Pixels == (0..(LoopCount(height) - 1)) \X (0..(LoopCount(width) - 1))

pixelCount == Mul(width, height)

\* length of new Float32Array(pixelCount): NaN gives an empty array
ArrayLength == IF pixelCount.nan THEN 0 ELSE pixelCount.n

isLRGB == format = PTM_FORMAT_LRGB

\* the source row flipped as in the RGB branch
InterleavedLRGBSrcIdx_Flipped(y, x) == offset + ((H - 1 - y) * W + x) * 9

\* interleaved revision, LRGB: 9 bytes per pixel, rows as stored
InterleavedLRGBSrcIdx(y, x) == offset + (y * W + x) * 9

InterleavedLRGBDestIdx(y, x) == y * W + x

\* interleaved revision, RGB: 18 bytes per pixel, rows flipped
InterleavedRGBSrcIdx(y, x) == (offset + y * W * 18) + x * 18

InterleavedRGBDestIdx(y, x) == (H - 1 - y) * W + x

\* planar revision, LRGB: 6 coefficient bytes per pixel, then 3 colour bytes
\* per pixel, rows flipped
PlanarSrcPixel(y, x) == (H - 1 - y) * W + x

PlanarDestPixel(y, x) == y * W + x

PlanarLRGBCoefIdx(y, x, c) == (offset + PlanarSrcPixel(y, x) * 6) + c

PlanarLRGBRgbIdx(y, x, k) == ((offset + 6 * ArrayLength) + PlanarSrcPixel(y, x) * 3) + k

\* planar revision, RGB: 18 planes of pixelCount bytes, rows flipped
PlanarRGBPlaneIdx(y, x, ch, c) ==
    (offset + (ch * 6 + c) * ArrayLength) + (H - 1 - y) * W + x

\* index in the output arrays of the pixel the loops read at (y, x)
DestIdx(y, x) ==
    IF variant = "interleaved"
    THEN IF isLRGB THEN InterleavedLRGBDestIdx(y, x) ELSE InterleavedRGBDestIdx(y, x)
    ELSE PlanarDestPixel(y, x)

\* byte index of coefficient c (of channel ch for RGB) of the pixel at (y, x)
CoefIdx(y, x, ch, c) ==
    IF variant = "interleaved"
    THEN IF isLRGB THEN InterleavedLRGBSrcIdx(y, x) + 3 + c
         ELSE InterleavedRGBSrcIdx(y, x) + ch * 6 + c
    ELSE IF isLRGB THEN PlanarLRGBCoefIdx(y, x, c)
         ELSE PlanarRGBPlaneIdx(y, x, ch, c)

\* byte index of colour channel k of the pixel at (y, x)
RgbIdx(y, x, k) ==
    IF variant = "interleaved"
    THEN IF isLRGB THEN InterleavedLRGBSrcIdx(y, x) + k
         ELSE InterleavedRGBSrcIdx(y, x) + 5 + 6 * k
    ELSE IF isLRGB THEN PlanarLRGBRgbIdx(y, x, k)
         ELSE PlanarRGBPlaneIdx(y, x, k, 5)

Channels == IF isLRGB THEN {0} ELSE {0, 1, 2}

\* every index the decoder passes to getUint8
DecodeReads ==
    {CoefIdx(p[1], p[2], ch, c) : <<p, ch, c>> \in Pixels \X Channels \X (0..5)}
    \cup {RgbIdx(p[1], p[2], k) : <<p, k>> \in Pixels \X (0..2)}

\* the bias of coefficient 0 applied to every coefficient
Dequantize_Bias0(rawValue, c) == Mul(Sub(Num(rawValue), At(bias, 0)), At(scale, c))

\* (rawValue - bias[c]) * scale[c]
Dequantize(rawValue, c) == Mul(Sub(Num(rawValue), At(bias, c)), At(scale, c))

\* the green coefficient added twice, the blue one left out
AverageRGB_GreenTwice(rCoef, gCoef, bCoef) == DivInt(Add(Add(rCoef, gCoef), gCoef), 3)

\* (rCoef + gCoef + bCoef) / 3
AverageRGB(rCoef, gCoef, bCoef) == DivInt(Add(Add(rCoef, gCoef), bCoef), 3)

\* the value stored in coefficients[c][DestIdx(y, x)]
CoefValue(y, x, c) ==
    IF isLRGB
    THEN Dequantize(getUint8(CoefIdx(y, x, 0, c)), c)
    ELSE AverageRGB(Dequantize(getUint8(CoefIdx(y, x, 0, c)), c),
                    Dequantize(getUint8(CoefIdx(y, x, 1, c)), c),
                    Dequantize(getUint8(CoefIdx(y, x, 2, c)), c))

\* the pixels whose output index is d (typed arrays start zero-filled, and a
\* store outside the array is ignored)
WritersOf(d) == {p \in Pixels : DestIdx(p[1], p[2]) = d}

DecodedCoefficients ==
    [c \in 0..5 |->
        [d \in 0..(ArrayLength - 1) |->
            IF WritersOf(d) = {} THEN Num(0)
            ELSE LET p == CHOOSE q \in WritersOf(d) : TRUE
                 IN  CoefValue(p[1], p[2], c)]]

DecodedRgb ==
    [j \in 0..(3 * ArrayLength - 1) |->
        IF WritersOf(j \div 3) = {} THEN 0
        ELSE LET p == CHOOSE q \in WritersOf(j \div 3) : TRUE
             IN  getUint8(RgbIdx(p[1], p[2], j % 3))]

\* the grazing case without the division by the length
NormalOf_NoRescale(a3, a4) ==
    LET nxySquared == Add(Mul(a3, a3), Mul(a4, a4))
    IN  IF AtLeastOne(nxySquared)
        THEN <<SurdOf(a3), SurdOf(a4), Surd(0, Num(0))>>
        ELSE <<SurdOf(a3), SurdOf(a4), Sqrt(Sub(Num(1), nxySquared))>>

\* the normal of one pixel from its linear coefficients a3 and a4
NormalOf(a3, a4) ==
    LET nxySquared == Add(Mul(a3, a3), Mul(a4, a4))
    IN  IF AtLeastOne(nxySquared)
        THEN <<OverSqrt(a3, nxySquared), OverSqrt(a4, nxySquared), Surd(0, Num(0))>>
        ELSE <<SurdOf(a3), SurdOf(a4), Sqrt(Sub(Num(1), nxySquared))>>

\* computeNormals(coefficients, width, height): normals[i*3 + k]
computeNormals(coefs) ==
    [j \in 0..(3 * ArrayLength - 1) |->
        NormalOf(coefs[3][j \div 3], coefs[4][j \div 3])[(j % 3) + 1]]

ParseUncompressedPTM ==
    /\ pc = "uncompressed"
    /\ IF ArrayLength < 0 \/ \E i \in DecodeReads : ~InRange(i)
       THEN /\ Throw("RangeError")
            /\ UNCHANGED <<coefficients, rgb, normals>>
       ELSE /\ \E decoded \in {DecodedCoefficients} :
                   /\ coefficients' = decoded
                   /\ normals' = computeNormals(decoded)
            /\ rgb' = DecodedRgb
            /\ pc' = "done"
            /\ error' = error
    /\ UNCHANGED <<appVars, packVars, variant, buffer, offset, headerLines, currentLine,
                   version, format, width, height, scale, bias>>

Next ==
    \/ ReadHeaderByte
    \/ ParseHeader
    \/ DebugDump
    \/ Dispatch
    \/ ParseUncompressedPTM

Spec == Init /\ [][Next]_vars

TypeOK ==
    /\ variant \in Variants
    /\ pc \in {"header", "parse", "dump", "dispatch", "uncompressed", "done", "failed"}
    /\ error \in {"none", "RangeError", "UnsupportedVersion", "UnsupportedFormat",
                  "JPEGNotSupported", "NotImplemented"}
    /\ (pc = "failed") = (error # "none")

(***************************************************************************)
(* Properties                                                              *)
(***************************************************************************)
Returned == pc = "done"

Finished == pc \in {"done", "failed"}

\* bytes of the buffer after the sixth header line
Remaining == Len(buffer) - offset

\* the format of a header that passed the version and format checks
Uncompressed == format \in {PTM_FORMAT_LRGB, PTM_FORMAT_RGB}

BytesPerPixel == IF format = PTM_FORMAT_LRGB THEN 9 ELSE 18

\* (raw - bias[c]) * scale[c], written out on the header lines
RawAt(i) == buffer[i + 1]

\* the c-th number of a header line; NaN when the line has no c-th token
TokenOf(line, c) ==
    IF c + 1 > Len(SplitWhite[line]) THEN NaN ELSE ToNumber(SplitWhite[line][c + 1])

BiasOf(c) == TokenOf(headerLines[6], c)

ScaleOf(c) == TokenOf(headerLines[5], c)

Expected(i, c) == Mul(Sub(Num(RawAt(i)), BiasOf(c)), ScaleOf(c))

\* C1: a buffer with a valid LRGB or RGB header and fewer than
\* width*height*bytesPerPixel bytes after it makes parse fail with a
\* Truncated error (raised by a length check, not by an out-of-range read).
C1_TruncatedIsReported ==
    (Finished /\ Uncompressed /\ W >= 1 /\ H >= 1 /\ Remaining < W * H * BytesPerPixel)
        => (pc = "failed" /\ error = "Truncated")

\* C2: every decoded coefficient is (rawByte - bias[c]) * scale[c] with the
\* bias and scale of its own index c; for RGB the three channel bytes of
\* index c are dequantized with that same bias[c] and scale[c] and averaged.
C2_DequantizeOwnIndex ==
    Returned =>
        \A p \in Pixels : \A c \in 0..5 :
            LET v == coefficients[c][DestIdx(p[1], p[2])]
            IN  IF format = PTM_FORMAT_LRGB
                THEN v = Expected(CoefIdx(p[1], p[2], 0, c), c)
                ELSE Mul(v, Num(3)) =
                        Add(Add(Expected(CoefIdx(p[1], p[2], 0, c), c),
                                Expected(CoefIdx(p[1], p[2], 1, c), c)),
                            Expected(CoefIdx(p[1], p[2], 2, c), c))

C2_Witness ==
    /\ Returned
    /\ Pixels # {}
    /\ \E c \in 0..4 : BiasOf(c) # BiasOf(c + 1) /\ ScaleOf(c) # ScaleOf(c + 1)

\* C3: interleaved decoder, LRGB: the base colour of output index y*width+x
\* is the three bytes at offset + 9*(y*width+x) + 0..2 and coefficient c is
\* the dequantized byte at offset + 9*(y*width+x) + 3 + c (no row flip).
C3_InterleavedLRGBLayout ==
    (Returned /\ variant = "interleaved" /\ format = PTM_FORMAT_LRGB) =>
        \A y \in 0..(H - 1) : \A x \in 0..(W - 1) :
            /\ \A k \in 0..2 :
                  rgb[3 * (y * W + x) + k] = RawAt(offset + 9 * (y * W + x) + k)
            /\ \A c \in 0..5 :
                  coefficients[c][y * W + x] = Expected(offset + 9 * (y * W + x) + 3 + c, c)

C3_Witness ==
    /\ Returned /\ variant = "interleaved" /\ format = PTM_FORMAT_LRGB
    /\ W >= 3 /\ H >= 2
    /\ BiasOf(0) # BiasOf(1)

\* C4: planar decoder, LRGB: coefficient c of output index y*width+x is the
\* dequantized byte at offset + c*width*height + (height-1-y)*width + x, and
\* the base colour is the three bytes at
\* offset + 6*width*height + 3*((height-1-y)*width + x).
C4_PlanarLRGBLayout ==
    (Returned /\ variant = "planar" /\ format = PTM_FORMAT_LRGB) =>
        \A y \in 0..(H - 1) : \A x \in 0..(W - 1) :
            /\ \A c \in 0..5 :
                  coefficients[c][y * W + x] =
                      Expected(offset + c * W * H + (H - 1 - y) * W + x, c)
            /\ \A k \in 0..2 :
                  rgb[3 * (y * W + x) + k] =
                      RawAt(offset + 6 * W * H + 3 * ((H - 1 - y) * W + x) + k)

\* C5: RGB format, both decoders: coefficient c of a pixel is
\* (coefR[c] + coefG[c] + coefB[c]) / 3 of the dequantized coefficient c of
\* the red, green and blue channel of that pixel.
C5_RGBAverage ==
    (Returned /\ format = PTM_FORMAT_RGB) =>
        \A y \in 0..(H - 1) : \A x \in 0..(W - 1) : \A c \in 0..5 :
            LET coefR == Expected(CoefIdx(y, x, 0, c), c)
                coefG == Expected(CoefIdx(y, x, 1, c), c)
                coefB == Expected(CoefIdx(y, x, 2, c), c)
                sum   == Add(Add(coefR, coefG), coefB)
            IN  coefficients[c][DestIdx(y, x)] = DivInt(sum, 3)

C5_Witness ==
    /\ Returned /\ format = PTM_FORMAT_RGB
    /\ \E c \in 0..5 : \E d \in DOMAIN coefficients[c] : coefficients[c][d].d = 3
    /\ \E c \in 0..5 : \E d \in DOMAIN coefficients[c] :
          coefficients[c][d].d = 1 /\ coefficients[c][d].n # 0

\* C6: RGB format: the base colour of every output pixel is, per channel,
\* that channel's constant term a5 of the same pixel.
C6_RGBBaseIsA5 ==
    (Returned /\ format = PTM_FORMAT_RGB) =>
        \A y \in 0..(H - 1) : \A x \in 0..(W - 1) : \A ch \in 0..2 :
            Num(rgb[3 * DestIdx(y, x) + ch]) = Expected(CoefIdx(y, x, ch, 5), 5)

\* C7: each decoder applies one scanline orientation to both formats: the
\* interleaved one takes output row y from stored scanline y, the planar one
\* from stored scanline height-1-y, for LRGB and for RGB alike (stated on the
\* base colour bytes of the row).
C7_OneOrientationPerVariant ==
    Returned =>
        \A y \in 0..(H - 1) : \A x \in 0..(W - 1) : \A k \in 0..2 :
            LET out == rgb[3 * (y * W + x) + k]
                sy  == IF variant = "interleaved" THEN y ELSE H - 1 - y
            IN  out = RawAt(
                    IF variant = "interleaved"
                    THEN IF format = PTM_FORMAT_LRGB
                         THEN offset + (sy * W + x) * 9 + k
                         ELSE offset + (sy * W + x) * 18 + 5 + 6 * k
                    ELSE IF format = PTM_FORMAT_LRGB
                         THEN offset + 6 * W * H + (sy * W + x) * 3 + k
                         ELSE offset + (6 * k + 5) * W * H + sy * W + x)

\* C8: a valid header followed by exactly width*height*bytesPerPixel bytes
\* (width, height >= 1) is decoded successfully.
C8_CompleteFileDecodes ==
    (Finished /\ Uncompressed /\ W >= 1 /\ H >= 1 /\ Remaining = W * H * BytesPerPixel)
        => Returned

\* C9: a valid header with a recognised format other than LRGB and RGB makes
\* parse fail with a not-implemented error whatever follows the header, and
\* parseUncompressedPTM is never entered.
C9_OtherFormatsNotImplemented ==
    (format \in PTM_FORMATS \ {PTM_FORMAT_LRGB, PTM_FORMAT_RGB}) =>
        /\ pc # "uncompressed"
        /\ pc # "done"
        /\ pc = "failed" => error \in {"NotImplemented", "JPEGNotSupported"}

\* "PTM_1." spelled out
HasVersionPrefix(line) ==
    /\ Len(line) >= 6
    /\ line[1] = 80 /\ line[2] = 84 /\ line[3] = 77
    /\ line[4] = 95 /\ line[5] = 49 /\ line[6] = 46

IsNumeral(line) == line # <<>> /\ \A i \in 1..Len(line) : line[i] \in 48..57

\* C11: when the first line is a supported version and the second header
\* line is not one of the seven names of the format enumeration, parse fails
\* with an unsupported-format error and returns no image.
C11_UnsupportedFormat ==
    (Len(headerLines) = 6 /\ HasVersionPrefix(headerLines[1])
        /\ headerLines[2] \notin PTM_FORMATS) =>
        /\ pc \in {"parse", "failed"}
        /\ pc = "failed" => error = "UnsupportedFormat"

\* C12: when the width line or the height line is not a non-negative
\* integer, parse fails with a malformed-header error; it never decodes with
\* such a width or height and never returns an image that has one.
C12_MalformedDimensions ==
    (Len(headerLines) = 6 /\ HasVersionPrefix(headerLines[1])
        /\ headerLines[2] \in PTM_FORMATS
        /\ ~(IsNumeral(headerLines[3]) /\ IsNumeral(headerLines[4]))) =>
        /\ pc \notin {"uncompressed", "done"}
        /\ pc = "failed" => error = "MalformedHeader"

\* positions (1-based) of the newline bytes among the first k bytes
NewlinesBefore(k) == {i \in 1..k : buffer[i] = 10}

\* the bytes scanned since the last newline
ScannedTail ==
    LET nls  == NewlinesBefore(offset)
        last == IF nls = {} THEN 0 ELSE CHOOSE i \in nls : \A j \in nls : j <= i
    IN  SubSeq(buffer, last + 1, offset)

NotCarriageReturn(b) == b # 13

\* C13: the header reader scans from offset 0 one byte at a time: a newline
\* ends the current line and is not part of it, a carriage return is dropped
\* without ending the line, any other byte is appended; it stops as soon as
\* six lines are complete, and the offset handed to the pixel decoder is the
\* index right after the sixth newline.
C13_HeaderReader ==
    /\ Len(headerLines) = Cardinality(NewlinesBefore(offset))
    /\ currentLine = SelectSeq(ScannedTail, NotCarriageReturn)
    /\ Len(headerLines) <= 6
    /\ pc = "header" => Len(headerLines) < 6
    /\ Len(headerLines) = 6 => buffer[offset] = 10
    /\ pc \in {"parse", "dump", "dispatch", "uncompressed", "done"} => Len(headerLines) = 6

C13_Witness ==
    /\ pc = "uncompressed"
    /\ \E i \in 1..offset : buffer[i] = 13 /\ i < offset - 1 /\ buffer[i + 1] # 10

\* C16: for every successfully decoded image and every pixel the normal has
\* unit length, nx^2 + ny^2 + nz^2 = 1, whatever the values of a3 and a4 the
\* decoder produced (1 - nx^2 = ny^2 + nz^2, all three components numbers).
C16_UnitNormals ==
    Returned =>
        \A i \in 0..(ArrayLength - 1) :
            LET nx == normals[3 * i]
                ny == normals[3 * i + 1]
                nz == normals[3 * i + 2]
            IN  /\ ~nx.nan /\ ~ny.nan /\ ~nz.nan
                /\ Sub(Num(1), nx.sq) = Add(ny.sq, nz.sq)

(***************************************************************************)
(* computeNormals on its own: the two linear coefficient planes of a       *)
(* two-pixel image are drawn from NormalInputs and the function is applied *)
(***************************************************************************)
NormalInputs ==
    {Num(0 - 2), Num(0 - 1), Rat(0 - 1, 2), Num(0), Rat(1, 3), Rat(1, 2),
     Rat(3, 5), Rat(4, 5), Num(1), Num(2), NaN}

NormalPlanes == [0..1 -> NormalInputs]

InitNormals ==
    /\ variant \in Variants
    /\ buffer = <<>>
    /\ pc = "computeNormals"
    /\ offset = 0
    /\ headerLines = <<>>
    /\ currentLine = <<>>
    /\ version = <<>>
    /\ format = PTM_FORMAT_LRGB
    /\ width = Num(2)
    /\ height = Num(1)
    /\ scale = <<>>
    /\ bias = <<>>
    /\ \E p3 \in NormalPlanes, p4 \in NormalPlanes :
           coefficients = [c \in 0..5 |->
                              IF c = 3 THEN p3
                              ELSE IF c = 4 THEN p4
                              ELSE [i \in 0..1 |-> Num(0)]]
    /\ rgb = [j \in 0..5 |-> 0]
    /\ normals = <<>>
    /\ error = "none"
    /\ NoRenderer
    /\ AppConstructed

ComputeNormals ==
    /\ pc = "computeNormals"
    /\ normals' = computeNormals(coefficients)
    /\ pc' = "normalsDone"
    /\ UNCHANGED <<appVars, packVars, variant, buffer, offset, headerLines, currentLine, version,
                   format, width, height, scale, bias, coefficients, rgb, error>>

NextNormals == ComputeNormals

SpecNormals == InitNormals /\ [][NextNormals]_vars

\* nx^2 + ny^2 of the coefficients of pixel i
SquaredLength(i) ==
    Add(Mul(coefficients[3][i], coefficients[3][i]),
        Mul(coefficients[4][i], coefficients[4][i]))

\* the surd s equals the number a divided by the square root of q
IsOverSqrt(s, a, q) ==
    /\ ~s.nan
    /\ s.sgn = Sign(a)
    /\ Mul(s.sq, q) = Mul(a, a)

\* C17: computeNormals sets (nx, ny) = (a3, a4); when nx^2 + ny^2 >= 1 it
\* divides both by sqrt(nx^2 + ny^2) and sets nz = 0, otherwise it leaves nx
\* and ny unchanged and sets nz = sqrt(1 - nx^2 - ny^2); nz is never negative
\* and (nx, ny) has the direction of (a3, a4).
C17_ComputeNormals ==
    pc = "normalsDone" =>
        \A i \in 0..1 :
            LET a3 == coefficients[3][i]
                a4 == coefficients[4][i]
                q  == SquaredLength(i)
                nx == normals[3 * i]
                ny == normals[3 * i + 1]
                nz == normals[3 * i + 2]
            IN  /\ IF ~q.nan /\ q.n >= q.d
                   THEN /\ IsOverSqrt(nx, a3, q)
                        /\ IsOverSqrt(ny, a4, q)
                        /\ ~nz.nan /\ nz.sgn = 0 /\ nz.sq = Num(0)
                   ELSE /\ nx = SurdOf(a3)
                        /\ ny = SurdOf(a4)
                        /\ nz = Sqrt(Sub(Num(1), q))
                /\ nz.sgn >= 0
                /\ ~q.nan =>
                       /\ nx.sgn = Sign(a3)
                       /\ ny.sgn = Sign(a4)
                       /\ Mul(nx.sq, Mul(a4, a4)) = Mul(ny.sq, Mul(a3, a3))

\* one pixel beyond the unit circle and one strictly inside it
C17_Witness ==
    /\ pc = "normalsDone"
    /\ coefficients[3][0] = Num(2) /\ coefficients[4][0] = Num(0 - 1)
    /\ normals[0].sq = Rat(4, 5) /\ normals[2].sgn = 0
    /\ coefficients[3][1] = Rat(1, 2) /\ coefficients[4][1] = Rat(0 - 1, 2)
    /\ normals[3].sq = Rat(1, 4) /\ normals[5].sq = Rat(1, 2) /\ normals[5].sgn = 1

(***************************************************************************)
(* RTIRenderer.createCoefficientTextures: the range of each coefficient    *)
(* plane and the two packed byte textures.  The image is the decoder's     *)
(* (width, height, coefficients); here its planes are drawn from           *)
(* PackValues.  Numbers are exact; an infinity is a fraction n/0.          *)
(***************************************************************************)
MaxPixels == 3

Infinity == [nan |-> FALSE, n |-> 1, d |-> 0]

NegInfinity == [nan |-> FALSE, n |-> 0 - 1, d |-> 0]

\* a < b (false when either is NaN)
Less(a, b) == ~a.nan /\ ~b.nan /\ a.n * b.d < b.n * a.d

\* a / b for finite a and finite b # 0
Div(a, b) ==
    IF a.nan \/ b.nan THEN NaN
    ELSE IF b.n > 0 THEN Rat(a.n * b.d, a.d * b.n)
    ELSE Rat((0 - a.n) * b.d, a.d * (0 - b.n))

\* Math.floor
Floor(a) == IF a.nan THEN NaN ELSE Num(a.n \div a.d)

\* Math.min and Math.max of two numbers (NaN if either is NaN)
MathMin(a, b) == IF a.nan \/ b.nan THEN NaN ELSE IF Less(b, a) THEN b ELSE a

MathMax(a, b) == IF a.nan \/ b.nan THEN NaN ELSE IF Less(a, b) THEN b ELSE a

\* the element a Uint8Array keeps when an integral number or NaN is stored
ToUint8(a) == IF a.nan THEN 0 ELSE a.n % 256

PackValues == {Num(0 - 1), Num(0), Rat(1, 2), Num(2)}

\* the inner loop of the range scan from pixel i on, r = {min, max} so far
\* (max is updated only when min was not)
RECURSIVE ScanRange_ElseIf(_, _, _)
ScanRange_ElseIf(plane, i, r) ==
    IF i >= LoopCount(pixelCount) THEN r
    ELSE LET val == plane[i]
         IN  ScanRange_ElseIf(plane, i + 1,
                 IF Less(val, r.min) THEN [min |-> val, max |-> r.max]
                 ELSE IF Less(r.max, val) THEN [min |-> r.min, max |-> val]
                 ELSE r)

\* the inner loop of the range scan from pixel i on, r = {min, max} so far
RECURSIVE ScanRange(_, _, _)
ScanRange(plane, i, r) ==
    IF i >= LoopCount(pixelCount) THEN r
    ELSE LET val == plane[i]
         IN  ScanRange(plane, i + 1,
                 [min |-> IF Less(val, r.min) THEN val ELSE r.min,
                  max |-> IF Less(r.max, val) THEN val ELSE r.max])

\* this.coeffRanges after the scan
ScannedRanges ==
    [c \in 0..5 |-> ScanRange(coefficients[c], 0, [min |-> Infinity, max |-> NegInfinity])]

\* normalizeCoeff dividing by range.max instead of the span
normalizeCoeff_SpanIsMax(ranges, value, coeffIndex) ==
    LET range == ranges[coeffIndex]
        span  == range.max
    IN  IF span = Num(0) THEN Num(128)
        ELSE LET normalized == Div(Sub(value, range.min), span)
             IN  MathMax(Num(0), MathMin(Num(255), Floor(Mul(normalized, Num(255)))))

\* normalizeCoeff(value, coeffIndex) with this.coeffRanges = ranges
normalizeCoeff(ranges, value, coeffIndex) ==
    LET range == ranges[coeffIndex]
        span  == Sub(range.max, range.min)
    IN  IF span = Num(0) THEN Num(128)
        ELSE LET normalized == Div(Sub(value, range.min), span)
             IN  MathMax(Num(0), MathMin(Num(255), Floor(Mul(normalized, Num(255)))))

\* coeff0Data (first = 0) and coeff1Data (first = 3): RGBA bytes per pixel
PackedData(ranges, first) ==
    [j \in 0..(4 * ArrayLength - 1) |->
        IF j % 4 = 3 THEN 255
        ELSE ToUint8(normalizeCoeff(ranges, coefficients[first + (j % 4)][j \div 4],
                                    first + (j % 4)))]

\* the shader's denormalize: mix(range.x, range.y, normalized)
denormalize(normalized, range) ==
    Add(Mul(range.min, Sub(Num(1), normalized)), Mul(range.max, normalized))

\* the value texture2D gives for a stored byte
Texel(byte) == Rat(byte, 255)

InitPack ==
    /\ variant \in Variants
    /\ buffer = <<>>
    /\ pc = "createCoefficientTextures"
    /\ offset = 0
    /\ headerLines = <<>>
    /\ currentLine = <<>>
    /\ version = <<>>
    /\ format = PTM_FORMAT_LRGB
    /\ \E w \in 1..MaxPixels :
          /\ width = Num(w)
          /\ \E pa \in [0..(w - 1) -> PackValues], pb \in [0..(w - 1) -> PackValues] :
                coefficients = [c \in 0..5 |-> IF c % 2 = 0 THEN pa ELSE pb]
    /\ height = Num(1)
    /\ scale = <<>>
    /\ bias = <<>>
    /\ rgb = <<>>
    /\ normals = <<>>
    /\ error = "none"
    /\ NoRenderer
    /\ AppConstructed

CreateCoefficientTextures ==
    /\ pc = "createCoefficientTextures"
    /\ coeffRanges' = ScannedRanges
    /\ coeff0Data' = PackedData(ScannedRanges, 0)
    /\ coeff1Data' = PackedData(ScannedRanges, 3)
    /\ pc' = "texturesCreated"
    /\ UNCHANGED <<rgbaData, normalData>>
    /\ UNCHANGED <<appVars, variant, buffer, offset, headerLines, currentLine, version,
                   format, width, height, scale, bias, coefficients, rgb,
                   normals, error>>

NextPack == CreateCoefficientTextures

SpecPack == InitPack /\ [][NextPack]_vars

TexturesCreated == pc = "texturesCreated"

\* clamp(x, 0, 1)
Clamp01(x) == MathMax(Num(0), MathMin(Num(1), x))

\* the nearest integer (halves upwards)
Round(x) == Floor(Add(x, Rat(1, 2)))

\* (v - min) / (max - min) for the computed range of coefficient c
NormalizedIn(v, c) ==
    Div(Sub(v, coeffRanges[c].min), Sub(coeffRanges[c].max, coeffRanges[c].min))

\* C18: for every coefficient whose range has max > min and every value v,
\* normalizeCoeff returns round(clamp((v - min) / (max - min), 0, 1) * 255),
\* the nearest of the 256 levels.
C18_NormalizeRounds ==
    TexturesCreated =>
        \A c \in 0..5 :
            Less(coeffRanges[c].min, coeffRanges[c].max) =>
                \A v \in PackValues :
                    normalizeCoeff(coeffRanges, v, c)
                        = Round(Mul(Clamp01(NormalizedIn(v, c)), Num(255)))

\* the byte stored for coefficient c of pixel i
PackedByte(c, i) == IF c < 3 THEN coeff0Data[4 * i + c] ELSE coeff1Data[4 * i + (c - 3)]

\* min + (packed / 255) * (max - min)
Unpack(packed, c) ==
    Add(coeffRanges[c].min,
        Mul(Rat(packed, 255), Sub(coeffRanges[c].max, coeffRanges[c].min)))

\* |a - b| <= e
Within(a, b, e) == ~Less(e, Sub(a, b)) /\ ~Less(e, Sub(b, a))

InRangeOf(v, c) == ~Less(v, coeffRanges[c].min) /\ ~Less(coeffRanges[c].max, v)

\* C19: for every coefficient and every value v with min <= v <= max of its
\* computed range, unpacking the packed byte with min + (packed/255)*(max - min),
\* which is what the shader's denormalize computes from the texel, gives a
\* value within (max - min)/255 of v.
C19_RoundTrip ==
    TexturesCreated =>
        \A c \in 0..5 :
            LET quantum == Div(Sub(coeffRanges[c].max, coeffRanges[c].min), Num(255))
            IN  /\ \A i \in 0..(ArrayLength - 1) :
                       /\ InRangeOf(coefficients[c][i], c)
                       /\ PackedByte(c, i) = normalizeCoeff(coeffRanges, coefficients[c][i], c).n
                       /\ denormalize(Texel(PackedByte(c, i)), coeffRanges[c])
                              = Unpack(PackedByte(c, i), c)
                       /\ Within(Unpack(PackedByte(c, i), c), coefficients[c][i], quantum)
                /\ \A v \in PackValues :
                       InRangeOf(v, c) =>
                           Within(Unpack(normalizeCoeff(coeffRanges, v, c).n, c), v, quantum)

\* a plane spanning [-1, 2] holds 1/2, whose level 127.5 is not a byte
C19_Witness ==
    /\ TexturesCreated
    /\ ArrayLength = 3
    /\ coeffRanges[0] = [min |-> Num(0 - 1), max |-> Num(2)]
    /\ \E i \in 0..2 : coefficients[0][i] = Rat(1, 2) /\ coeff0Data[4 * i] = 127
    /\ coeffRanges[1] = [min |-> Num(0), max |-> Rat(1, 2)]

\* the values of plane c
PlaneValues(c) == {coefficients[c][i] : i \in 0..(ArrayLength - 1)}

\* C20: createCoefficientTextures computes the minimum and the maximum of
\* each of the six planes over all pixels; when they are equal normalizeCoeff
\* returns the midpoint 128 for every value, and unpacking the midpoint gives
\* back the single value of the flat plane.
C20_RangesAndFlatPlane ==
    TexturesCreated =>
        \A c \in 0..5 :
            /\ coeffRanges[c].min \in PlaneValues(c)
            /\ coeffRanges[c].max \in PlaneValues(c)
            /\ \A v \in PlaneValues(c) : InRangeOf(v, c)
            /\ coeffRanges[c].max = coeffRanges[c].min =>
                   /\ \A v \in PackValues : normalizeCoeff(coeffRanges, v, c) = Num(128)
                   /\ \A i \in 0..(ArrayLength - 1) :
                          /\ PackedByte(c, i) = 128
                          /\ denormalize(Texel(PackedByte(c, i)), coeffRanges[c])
                                 = coefficients[c][i]
                          /\ Unpack(PackedByte(c, i), c) = coefficients[c][i]

\* a flat plane of three pixels next to a plane that is not flat
C20_Witness ==
    /\ TexturesCreated
    /\ ArrayLength = 3
    /\ PlaneValues(0) = {Rat(1, 2)}
    /\ coeff0Data[0] = 128 /\ coeff0Data[8] = 128
    /\ coeffRanges[1] = [min |-> Num(0 - 1), max |-> Num(2)]
    /\ coefficients[1][0] = Num(2) /\ coefficients[1][2] = Num(0 - 1)

(***************************************************************************)
(* RTIViewerApp: loads, initViewer and the controls.  A load is a record   *)
(* of its kind, of whether parse accepts the file, and of its stage; its   *)
(* index in `loads` stands for the image it decodes.  The asynchronous     *)
(* steps of different loads interleave freely, except that the 100 ms      *)
(* timers of demo loads fire in the order they were set.                   *)
(***************************************************************************)
MaxLoads == 2

ViewModes == {"default", "specular", "normals"}

SliderValues == {Num(1), Rat(5, 2)}

\* the files the user can pick: the name ends in .ptm or not, parse accepts
\* the contents or throws
Files == [ptmName : BOOLEAN, parses : BOOLEAN]

\* no parse() call is in progress in the model of the app
ParserIdle ==
    /\ variant = "interleaved"
    /\ buffer = <<>>
    /\ pc = "app"
    /\ offset = 0
    /\ headerLines = <<>>
    /\ currentLine = <<>>
    /\ version = <<>>
    /\ format = <<>>
    /\ width = Num(0)
    /\ height = Num(0)
    /\ scale = <<>>
    /\ bias = <<>>
    /\ coefficients = <<>>
    /\ rgb = <<>>
    /\ normals = <<>>
    /\ error = "none"

InitApp ==
    /\ ParserIdle
    /\ NoRenderer
    /\ AppConstructed

\* value.toFixed(1) as the number the text shows
ToFixed1(v) == Div(Floor(Add(Mul(v, Num(10)), Rat(1, 2))), Num(10))

\* value.toFixed(2) as the number the text shows
ToFixed2(v) == Div(Floor(Add(Mul(v, Num(100)), Rat(1, 2))), Num(100))

\* RTIRenderer.setLightDirection on the object r
setLightDirection(r, x, y) ==
    [r EXCEPT !.lightX = MathMax(Num(0 - 1), MathMin(Num(1), x)),
              !.lightY = MathMax(Num(0 - 1), MathMin(Num(1), y))]

\* showLoading(true) and the load is in flight
StartLoad(kind, parses) ==
    /\ Len(loads) < MaxLoads
    /\ loads' = Append(loads, [kind |-> kind, parses |-> parses, stage |-> "pending"])
    /\ loadingOverlay' = TRUE
    /\ UNCHANGED <<renderer, rendererObj, initViewerCalls, imageDimensions,
                   imageFormat, lightXDisplay, lightYDisplay, lightIndicator,
                   activeMode, specularSlider, specularValue, diffuseSlider,
                   diffuseValue, section, alertText>>

\* loadFile(file) up to its first await
LoadFileStart(file) ==
    /\ IF ~file.ptmName
       THEN /\ alertText' = "notPTM"
            /\ UNCHANGED <<loads, renderer, rendererObj, initViewerCalls,
                           imageDimensions, imageFormat, lightXDisplay,
                           lightYDisplay, lightIndicator, activeMode,
                           specularSlider, specularValue, diffuseSlider,
                           diffuseValue, section, loadingOverlay>>
       ELSE StartLoad("file", file.parses)
    /\ UNCHANGED <<parserVars, packVars, isDragging>>

\* loadDemo() up to setTimeout
LoadDemoStart ==
    /\ StartLoad("demo", TRUE)
    /\ UNCHANGED <<parserVars, packVars, isDragging>>

\* initViewer that hands the old renderer's two factors to the new renderer
InitViewer_ReusesRenderer(l, created) ==
    /\ initViewerCalls' = initViewerCalls + 1
    /\ IF created
       THEN /\ renderer' = renderer + 1
            /\ rendererObj' = setLightDirection([NewRenderer EXCEPT !.ptmData = l,
                                                    !.specularEnhancement =
                                                        rendererObj.specularEnhancement,
                                                    !.diffuseGain = rendererObj.diffuseGain],
                                                Num(0), Num(0))
            /\ imageDimensions' = l
            /\ imageFormat' = l
            /\ lightIndicator' = [left |-> Add(Num(50), Mul(Num(0), Num(45))),
                                  top  |-> Sub(Num(50), Mul(Num(0), Num(45)))]
            /\ lightXDisplay' = ToFixed2(Num(0))
            /\ lightYDisplay' = ToFixed2(Num(0))
            /\ activeMode' = "default"
            /\ specularSlider' = Num(1)
            /\ specularValue' = Num(1)
            /\ diffuseSlider' = Num(1)
            /\ diffuseValue' = Num(1)
       ELSE /\ renderer' = renderer
            /\ rendererObj' = IF renderer = 0 THEN rendererObj
                              ELSE [rendererObj EXCEPT !.disposed = TRUE]
            /\ UNCHANGED <<imageDimensions, imageFormat, lightXDisplay,
                           lightYDisplay, lightIndicator, activeMode,
                           specularSlider, specularValue, diffuseSlider,
                           diffuseValue>>

\* initViewer(ptmData) for the image of load l; created is whether
\* new RTIRenderer(canvas) returns (it throws without WebGL or when a shader
\* fails).  True in the next state iff initViewer returned.
InitViewer(l, created) ==
    /\ initViewerCalls' = initViewerCalls + 1
    /\ IF created
       THEN /\ renderer' = renderer + 1
            /\ rendererObj' = setLightDirection([NewRenderer EXCEPT !.ptmData = l],
                                                Num(0), Num(0))
            /\ imageDimensions' = l
            /\ imageFormat' = l
            /\ lightIndicator' = [left |-> Add(Num(50), Mul(Num(0), Num(45))),
                                  top  |-> Sub(Num(50), Mul(Num(0), Num(45)))]
            /\ lightXDisplay' = ToFixed2(Num(0))
            /\ lightYDisplay' = ToFixed2(Num(0))
            /\ activeMode' = "default"
            /\ specularSlider' = Num(1)
            /\ specularValue' = Num(1)
            /\ diffuseSlider' = Num(1)
            /\ diffuseValue' = Num(1)
       ELSE /\ renderer' = renderer
            /\ rendererObj' = IF renderer = 0 THEN rendererObj
                              ELSE [rendererObj EXCEPT !.disposed = TRUE]
            /\ UNCHANGED <<imageDimensions, imageFormat, lightXDisplay,
                           lightYDisplay, lightIndicator, activeMode,
                           specularSlider, specularValue, diffuseSlider,
                           diffuseValue>>

\* the try / catch / finally of a load whose data is decoded (decoded) or
\* whose parse threw
Settle(l, decoded, created, message) ==
    /\ IF decoded
       THEN /\ InitViewer(l, created)
            /\ section' = IF created THEN "viewer" ELSE section
            /\ alertText' = IF created THEN alertText ELSE message
       ELSE /\ alertText' = message
            /\ UNCHANGED <<renderer, rendererObj, initViewerCalls,
                           imageDimensions, imageFormat, lightXDisplay,
                           lightYDisplay, lightIndicator, activeMode,
                           specularSlider, specularValue, diffuseSlider,
                           diffuseValue, section>>
    /\ loads' = [loads EXCEPT ![l].stage =
                    IF decoded /\ created THEN "installed" ELSE "failed"]
    /\ loadingOverlay' = FALSE

\* loadFile after the read: showViewerSection() moved into finally
LoadFileSettle_ShowsViewer(l) ==
    /\ l \in 1..Len(loads)
    /\ loads[l].kind = "file"
    /\ loads[l].stage = "pending"
    /\ \E created \in BOOLEAN :
          IF loads[l].parses
          THEN Settle(l, TRUE, created, "loadError")
          ELSE /\ alertText' = "loadError"
               /\ section' = "viewer"
               /\ loads' = [loads EXCEPT ![l].stage = "failed"]
               /\ loadingOverlay' = FALSE
               /\ UNCHANGED <<renderer, rendererObj, initViewerCalls,
                              imageDimensions, imageFormat, lightXDisplay,
                              lightYDisplay, lightIndicator, activeMode,
                              specularSlider, specularValue, diffuseSlider,
                              diffuseValue>>
    /\ UNCHANGED <<parserVars, packVars, isDragging>>

\* loadFile from the moment file.arrayBuffer() resolves: parse, initViewer,
\* showViewerSection, or the catch; then finally
LoadFileSettle(l) ==
    /\ l \in 1..Len(loads)
    /\ loads[l].kind = "file"
    /\ loads[l].stage = "pending"
    /\ \E created \in BOOLEAN : Settle(l, loads[l].parses, created, "loadError")
    /\ UNCHANGED <<parserVars, packVars, isDragging>>

\* the timer callback of loadDemo; timers fire in the order they were set
LoadDemoTimer(l) ==
    /\ l \in 1..Len(loads)
    /\ loads[l].kind = "demo"
    /\ loads[l].stage = "pending"
    /\ \A k \in 1..(l - 1) : ~(loads[k].kind = "demo" /\ loads[k].stage = "pending")
    /\ \E created \in BOOLEAN : Settle(l, TRUE, created, "demoError")
    /\ UNCHANGED <<parserVars, packVars, isDragging>>

\* click on a mode button: setViewMode(btn.dataset.mode)
SetViewMode(mode) ==
    /\ activeMode' = mode
    /\ rendererObj' = IF renderer = 0 THEN rendererObj
                      ELSE [rendererObj EXCEPT !.viewMode = mode]
    /\ UNCHANGED <<loads, renderer, initViewerCalls, imageDimensions, imageFormat,
                   lightXDisplay, lightYDisplay, lightIndicator, specularSlider,
                   specularValue, diffuseSlider, diffuseValue, section,
                   loadingOverlay, alertText>>
    /\ UNCHANGED <<parserVars, packVars, isDragging>>

\* input event of the specular slider
SpecularInput(value) ==
    /\ specularSlider' = value
    /\ specularValue' = ToFixed1(value)
    /\ rendererObj' = IF renderer = 0 THEN rendererObj
                      ELSE [rendererObj EXCEPT !.specularEnhancement = value]
    /\ UNCHANGED <<loads, renderer, initViewerCalls, imageDimensions, imageFormat,
                   lightXDisplay, lightYDisplay, lightIndicator, activeMode,
                   diffuseSlider, diffuseValue, section, loadingOverlay, alertText>>
    /\ UNCHANGED <<parserVars, packVars, isDragging>>

\* input event of the diffuse slider
DiffuseInput(value) ==
    /\ diffuseSlider' = value
    /\ diffuseValue' = ToFixed1(value)
    /\ rendererObj' = IF renderer = 0 THEN rendererObj
                      ELSE [rendererObj EXCEPT !.diffuseGain = value]
    /\ UNCHANGED <<loads, renderer, initViewerCalls, imageDimensions, imageFormat,
                   lightXDisplay, lightYDisplay, lightIndicator, activeMode,
                   specularSlider, specularValue, section, loadingOverlay, alertText>>
    /\ UNCHANGED <<parserVars, packVars, isDragging>>

\* click on the new-file button
ShowUploadSection ==
    /\ section' = "upload"
    /\ UNCHANGED <<loads, renderer, rendererObj, initViewerCalls, imageDimensions,
                   imageFormat, lightXDisplay, lightYDisplay, lightIndicator,
                   activeMode, specularSlider, specularValue, diffuseSlider,
                   diffuseValue, loadingOverlay, alertText>>
    /\ UNCHANGED <<parserVars, packVars, isDragging>>

(***************************************************************************)
(* The light control.  Its rectangle is 10 px wide with its corner at      *)
(* (20, 20) while the viewer section is displayed; while the section has   *)
(* display none getBoundingClientRect() gives zeros.                       *)
(***************************************************************************)
LightControlRect ==
    IF section = "viewer"
    THEN [left |-> Num(20), top |-> Num(20), width |-> Num(10), height |-> Num(10)]
    ELSE [left |-> Num(0), top |-> Num(0), width |-> Num(0), height |-> Num(0)]

\* (clientX, clientY) of the pointer events: one position inside the circle,
\* one on it, two outside it (at 2 and at 13/5 radii from the centre)
PointerPositions == {<<26, 23>>, <<28, 21>>, <<31, 33>>, <<30, 37>>}

\* -a
Neg(a) == IF a.nan THEN NaN ELSE [a EXCEPT !.n = 0 - a.n]

\* a / b of JS: a zero or infinite divisor included
Quotient(a, b) ==
    IF a.nan \/ b.nan THEN NaN
    ELSE IF b.d = 0 THEN (IF a.d = 0 THEN NaN ELSE Num(0))
    ELSE IF b.n = 0
         THEN (IF a.n = 0 THEN NaN ELSE IF a.n > 0 THEN Infinity ELSE NegInfinity)
    ELSE IF a.d = 0 THEN (IF (a.n > 0) = (b.n > 0) THEN Infinity ELSE NegInfinity)
    ELSE Div(a, b)

\* x * x + y * y
SquaredMagnitude(x, y) ==
    IF x.nan \/ y.nan THEN NaN
    ELSE IF x.d = 0 \/ y.d = 0 THEN Infinity
    ELSE Add(Mul(x, x), Mul(y, y))

\* the root of a square integer
ISqrt(n) == CHOOSE r \in 0..n : r * r = n

\* a / Math.sqrt(q) for q > 1, q the square of a rational or infinite
OverMagnitude(a, q) ==
    IF a.nan \/ q.nan THEN NaN
    ELSE IF q.d = 0 THEN (IF a.d = 0 THEN NaN ELSE Num(0))
    ELSE Rat(a.n * ISqrt(q.d), a.d * ISqrt(q.n))

\* the (x, y) updateLightFromEvent passes to setLightPosition for a pointer
\* at pos
LightFromEvent(pos) ==
    LET rect    == LightControlRect
        centerX == Add(rect.left, Quotient(rect.width, Num(2)))
        centerY == Add(rect.top, Quotient(rect.height, Num(2)))
        radius  == Quotient(rect.width, Num(2))
        x       == Quotient(Sub(Num(pos[1]), centerX), radius)
        y       == Neg(Quotient(Sub(Num(pos[2]), centerY), radius))
        magSq   == SquaredMagnitude(x, y)
    IN  IF Less(Num(1), magSq)
        THEN <<OverMagnitude(x, magSq), OverMagnitude(y, magSq)>>
        ELSE <<x, y>>

\* setLightPosition(x, y)
SetLightPosition(x, y) ==
    /\ lightIndicator' = [left |-> Add(Num(50), Mul(x, Num(45))),
                          top  |-> Sub(Num(50), Mul(y, Num(45)))]
    /\ lightXDisplay' = ToFixed2(x)
    /\ lightYDisplay' = ToFixed2(y)
    /\ rendererObj' = IF renderer = 0 THEN rendererObj
                      ELSE setLightDirection(rendererObj, x, y)

\* mousedown / touchstart on the light control (which is displayed)
StartLightDrag(pos) ==
    /\ section = "viewer"
    /\ isDragging' = TRUE
    /\ SetLightPosition(LightFromEvent(pos)[1], LightFromEvent(pos)[2])
    /\ UNCHANGED <<loads, renderer, initViewerCalls, imageDimensions, imageFormat,
                   activeMode, specularSlider, specularValue, diffuseSlider,
                   diffuseValue, section, loadingOverlay, alertText>>
    /\ UNCHANGED <<parserVars, packVars>>

\* handleLightDrag without the test of isDragging
HandleLightDrag_NoTest(pos) ==
    /\ SetLightPosition(LightFromEvent(pos)[1], LightFromEvent(pos)[2])
    /\ UNCHANGED <<loads, renderer, initViewerCalls, imageDimensions, imageFormat,
                   activeMode, specularSlider, specularValue, diffuseSlider,
                   diffuseValue, section, loadingOverlay, alertText, isDragging>>
    /\ UNCHANGED <<parserVars, packVars>>

\* mousemove / touchmove on the document
HandleLightDrag(pos) ==
    /\ IF ~isDragging
       THEN UNCHANGED <<lightIndicator, lightXDisplay, lightYDisplay, rendererObj>>
       ELSE SetLightPosition(LightFromEvent(pos)[1], LightFromEvent(pos)[2])
    /\ UNCHANGED <<loads, renderer, initViewerCalls, imageDimensions, imageFormat,
                   activeMode, specularSlider, specularValue, diffuseSlider,
                   diffuseValue, section, loadingOverlay, alertText, isDragging>>
    /\ UNCHANGED <<parserVars, packVars>>

\* mouseup / touchend on the document
EndLightDrag ==
    /\ isDragging' = FALSE
    /\ UNCHANGED <<loads, renderer, rendererObj, initViewerCalls, imageDimensions,
                   imageFormat, lightXDisplay, lightYDisplay, lightIndicator,
                   activeMode, specularSlider, specularValue, diffuseSlider,
                   diffuseValue, section, loadingOverlay, alertText>>
    /\ UNCHANGED <<parserVars, packVars>>

NextApp ==
    \/ \E file \in Files : LoadFileStart(file)
    \/ LoadDemoStart
    \/ \E l \in 1..MaxLoads : LoadFileSettle(l)
    \/ \E l \in 1..MaxLoads : LoadDemoTimer(l)
    \/ \E mode \in ViewModes : SetViewMode(mode)
    \/ \E value \in SliderValues : SpecularInput(value)
    \/ \E value \in SliderValues : DiffuseInput(value)
    \/ ShowUploadSection
    \/ \E pos \in PointerPositions : StartLightDrag(pos)
    \/ \E pos \in PointerPositions : HandleLightDrag(pos)
    \/ EndLightDrag

SpecApp == InitApp /\ [][NextApp]_vars

\* what a failed load must leave alone: the renderer, the image and the
\* settings it holds, the displays and controls, the visible section
InstalledView ==
    <<renderer, rendererObj, imageDimensions, imageFormat, lightXDisplay,
      lightYDisplay, lightIndicator, activeMode, specularSlider, specularValue,
      diffuseSlider, diffuseValue, section>>

\* this step starts a loadFile whose parse will throw
StartsUnparsable ==
    /\ Len(loads') = Len(loads) + 1
    /\ loads'[Len(loads')].kind = "file"
    /\ ~loads'[Len(loads')].parses

\* this step completes load l, a loadFile whose parse throws
SettlesUnparsable(l) ==
    /\ loads[l].kind = "file"
    /\ ~loads[l].parses
    /\ loads[l].stage = "pending"
    /\ loads'[l].stage # "pending"

\* C14: when parse throws during loadFile no image is installed: initViewer
\* is not called, and the renderer, its image and settings, the displays and
\* the visible section stay as they were; only the alert and the loading
\* overlay change.
C14_FailedParseInstallsNothing ==
    [][(StartsUnparsable \/ \E l \in 1..Len(loads) : SettlesUnparsable(l)) =>
           /\ initViewerCalls' = initViewerCalls
           /\ UNCHANGED InstalledView
           /\ \A l \in 1..Len(loads) :
                  SettlesUnparsable(l) =>
                      /\ loads'[l].stage = "failed"
                      /\ alertText' = "loadError"
                      /\ loadingOverlay' = FALSE]_vars

\* a file that does not parse was loaded over an installed image whose
\* settings had been changed, and the image is still the installed one
C14_Witness ==
    /\ Len(loads) = 2
    /\ loads[1].stage = "installed"
    /\ loads[2].kind = "file" /\ ~loads[2].parses /\ loads[2].stage = "failed"
    /\ renderer = 1
    /\ rendererObj.ptmData = 1
    /\ rendererObj.viewMode = "normals"
    /\ rendererObj.specularEnhancement = Rat(5, 2)
    /\ imageDimensions = 1
    /\ section = "viewer"
    /\ alertText = "loadError"
    /\ initViewerCalls = 1

\* every load so far has completed and installed its image
AllInstalled == \A l \in 1..Len(loads) : loads[l].stage = "installed"

\* C15: when load requests are started one after the other and all succeed,
\* the image current in the renderer once all have completed is the one of
\* the request started last, whatever order their asynchronous steps
\* completed in.
C15_LastStartedIsCurrent ==
    (Len(loads) >= 2 /\ AllInstalled) =>
        /\ renderer # 0
        /\ rendererObj.ptmData = Len(loads)
        /\ imageDimensions = Len(loads)

(***************************************************************************)
(* The fragment shader on output pixel i: each output pixel samples its    *)
(* own texel (the canvas has the size of the image)                        *)
(***************************************************************************)
\* a0..a5 in main(): denormalize of the sampled texel
ShaderCoeff(c, i) == denormalize(Texel(PackedByte(c, i)), coeffRanges[c])

\* L = a0*lu^2 + a1*lv^2 + a2*lu*lv + a3*lu + a4*lv + a5
Polynomial(i, lu, lv) ==
    Add(Add(Add(Add(Add(Mul(Mul(ShaderCoeff(0, i), lu), lu),
                        Mul(Mul(ShaderCoeff(1, i), lv), lv)),
                    Mul(Mul(ShaderCoeff(2, i), lu), lv)),
                Mul(ShaderCoeff(3, i), lu)),
            Mul(ShaderCoeff(4, i), lv)),
        ShaderCoeff(5, i))

\* C21: for every pixel the luminance the evaluator computes at light
\* direction (0, 0) equals the pixel's decoded constant coefficient a5
\* exactly, whatever the other coefficients and the ranges are.
C21_LuminanceAtOriginIsA5 ==
    TexturesCreated =>
        \A i \in 0..(ArrayLength - 1) :
            Polynomial(i, Num(0), Num(0)) = coefficients[5][i]

(***************************************************************************)
(* RTIRenderer.setLightDirection called directly on a renderer object      *)
(***************************************************************************)
\* the numbers given to setLightDirection: fifths from -2 to 2, and NaN
LightInputs == {Rat(k, 5) : k \in (0 - 10)..10} \cup {NaN}

InitLight ==
    /\ ParserIdle
    /\ NoRenderer
    /\ AppConstructed

SetLightDirection(x, y) ==
    /\ rendererObj' = setLightDirection(rendererObj, x, y)
    /\ UNCHANGED <<loads, renderer, initViewerCalls, imageDimensions, imageFormat,
                   lightXDisplay, lightYDisplay, lightIndicator, activeMode,
                   specularSlider, specularValue, diffuseSlider, diffuseValue,
                   section, loadingOverlay, alertText>>
    /\ UNCHANGED <<parserVars, packVars, isDragging>>

NextLight == \E x \in LightInputs, y \in LightInputs : SetLightDirection(x, y)

SpecLight == InitLight /\ [][NextLight]_vars

\* a <= b (false when either is NaN)
LessEq(a, b) == ~a.nan /\ ~b.nan /\ a.n * b.d <= b.n * a.d

\* (x, y) lies in the closed unit disk
InUnitDisk(x, y) == LessEq(Add(Mul(x, x), Mul(y, y)), Num(1))

\* C22: after any sequence of setLightDirection calls the light direction the
\* renderer uses satisfies -1 <= lu <= 1, -1 <= lv <= 1 and lu^2 + lv^2 <= 1.
C22_LightInUnitDisk ==
    /\ LessEq(Num(0 - 1), rendererObj.lightX) /\ LessEq(rendererObj.lightX, Num(1))
    /\ LessEq(Num(0 - 1), rendererObj.lightY) /\ LessEq(rendererObj.lightY, Num(1))
    /\ InUnitDisk(rendererObj.lightX, rendererObj.lightY)

\* C23: after any sequence of app events every light direction the app hands
\* to the renderer lies in the closed unit disk (a pointer farther than one
\* radius from the centre is scaled onto the circle, one inside is passed
\* unchanged), so the renderer the app holds never has a direction outside it.
C23_HandedLightInUnitDisk ==
    renderer # 0 => InUnitDisk(rendererObj.lightX, rendererObj.lightY)

(***************************************************************************)
(* RTIRenderer with an image: loadPTM, the four setters and what render()  *)
(* draws.  Every setter ends with render(), so the canvas is a function of *)
(* the renderer's fields and textures: FragColor(i) is gl_FragColor of     *)
(* output pixel i, which samples texel i of each texture.                  *)
(***************************************************************************)
\* normals of one pixel as the decoder stores them (Float32 values)
RenderNormals ==
    {<<Num(0), Num(0), Num(1)>>,
     <<Rat(3, 5), Rat(0 - 4, 5), Num(0)>>,
     <<Num(0 - 1), Num(0), Num(0)>>}

\* the six coefficient planes of a two-pixel image
RenderCoefficients ==
    {[c \in 0..5 |-> [i \in 0..1 |-> IF i = 0 THEN Num(0 - 1) ELSE Num(2)]],
     [c \in 0..5 |-> [i \in 0..1 |-> IF i = 0 THEN Rat(1, 2) ELSE Num(0)]],
     [c \in 0..5 |-> [i \in 0..1 |-> IF (c = 5) = (i = 0) THEN Num(2) ELSE Rat(1, 2)]]}

\* the base colour of a two-pixel image
RenderRgb == {[j \in 0..5 |-> 40 * j + 10], [j \in 0..5 |-> 255 - j]}

RenderLights == {Num(0), Rat(1, 2), Num(0 - 1), Num(2)}

InitRender ==
    /\ variant \in Variants
    /\ buffer = <<>>
    /\ pc = "loadPTM"
    /\ offset = 0
    /\ headerLines = <<>>
    /\ currentLine = <<>>
    /\ version = <<>>
    /\ format = PTM_FORMAT_LRGB
    /\ width = Num(2)
    /\ height = Num(1)
    /\ scale = <<>>
    /\ bias = <<>>
    /\ coefficients \in RenderCoefficients
    /\ rgb \in RenderRgb
    /\ \E n0 \in RenderNormals, n1 \in RenderNormals :
          normals = [j \in 0..5 |-> IF j < 3 THEN n0[j + 1] ELSE n1[j - 2]]
    /\ error = "none"
    /\ NoRenderer
    /\ AppConstructed

\* rgbaData of createRGBTexture
RgbaData ==
    [j \in 0..(4 * ArrayLength - 1) |->
        IF j % 4 = 3 THEN 255 ELSE rgb[(j \div 4) * 3 + (j % 4)]]

\* normalData of createNormalTexture
NormalData ==
    [j \in 0..(4 * ArrayLength - 1) |->
        IF j % 4 = 3 THEN 255
        ELSE ToUint8(Floor(Mul(Add(Mul(normals[(j \div 4) * 3 + (j % 4)], Rat(1, 2)),
                                   Rat(1, 2)),
                               Num(255))))]

\* loadPTM(ptmData) on a new renderer
LoadPTM ==
    /\ pc = "loadPTM"
    /\ rendererObj' = [rendererObj EXCEPT !.ptmData = 1]
    /\ coeffRanges' = ScannedRanges
    /\ coeff0Data' = PackedData(ScannedRanges, 0)
    /\ coeff1Data' = PackedData(ScannedRanges, 3)
    /\ rgbaData' = RgbaData
    /\ normalData' = NormalData
    /\ pc' = "rendered"
    /\ UNCHANGED <<variant, buffer, offset, headerLines, currentLine, version,
                   format, width, height, scale, bias, coefficients, rgb,
                   normals, error>>
    /\ UNCHANGED <<loads, renderer, initViewerCalls, imageDimensions, imageFormat,
                   lightXDisplay, lightYDisplay, lightIndicator, activeMode,
                   specularSlider, specularValue, diffuseSlider, diffuseValue,
                   section, loadingOverlay, alertText, isDragging>>

\* a setter of the renderer other than setLightDirection
RendererSet(r) ==
    /\ rendererObj' = r
    /\ UNCHANGED <<loads, renderer, initViewerCalls, imageDimensions, imageFormat,
                   lightXDisplay, lightYDisplay, lightIndicator, activeMode,
                   specularSlider, specularValue, diffuseSlider, diffuseValue,
                   section, loadingOverlay, alertText, isDragging>>
    /\ UNCHANGED <<parserVars, packVars>>

SetRendererViewMode(mode) == RendererSet([rendererObj EXCEPT !.viewMode = mode])

SetSpecularEnhancement(value) ==
    RendererSet([rendererObj EXCEPT !.specularEnhancement = value])

SetDiffuseGain(value) == RendererSet([rendererObj EXCEPT !.diffuseGain = value])

NextRender ==
    \/ LoadPTM
    \/ \E x \in RenderLights, y \in RenderLights : SetLightDirection(x, y)
    \/ \E mode \in ViewModes : SetRendererViewMode(mode)
    \/ \E value \in SliderValues : SetSpecularEnhancement(value)
    \/ \E value \in SliderValues : SetDiffuseGain(value)

SpecRender == InitRender /\ [][NextRender]_vars

\* viewModeInt of render() with 'normals' and 'specular' exchanged
viewModeInt_Exchanged(r) ==
    IF r.viewMode = "specular" THEN 2 ELSE IF r.viewMode = "normals" THEN 1 ELSE 0

\* viewModeInt of render()
viewModeInt(r) ==
    IF r.viewMode = "normals" THEN 2 ELSE IF r.viewMode = "specular" THEN 1 ELSE 0

\* clamp(x, lo, hi) of GLSL
Clamp(x, lo, hi) == MathMin(MathMax(x, lo), hi)

\* the root of the square of a rational
RootOf(q) == IF q.nan THEN NaN ELSE Rat(ISqrt(q.n), ISqrt(q.d))

RECURSIVE Pow(_, _)
Pow(x, k) == IF k = 0 THEN Num(1) ELSE Mul(x, Pow(x, k - 1))

\* texture2D(u_normalTex, v_texCoord).rgb * 2.0 - 1.0
ShaderNormal(i) ==
    [k \in 1..3 |-> Sub(Mul(Texel(normalData[4 * i + (k - 1)]), Num(2)), Num(1))]

\* texture2D(u_rgbTex, v_texCoord).rgb
ShaderBaseColor(i) == [k \in 1..3 |-> Texel(rgbaData[4 * i + (k - 1)])]

\* dot(u, v) of GLSL
DotProduct(u, v) == Add(Add(Mul(u[1], v[1]), Mul(u[2], v[2])), Mul(u[3], v[3]))

\* pow(max(0.0, dot(reflect(-lightVec, normal), viewVec)), 20.0)
Specular(i) ==
    LET lu       == rendererObj.lightX
        lv       == rendererObj.lightY
        lz       == RootOf(MathMax(Num(0), Sub(Sub(Num(1), Mul(lu, lu)), Mul(lv, lv))))
        len2     == Add(Add(Mul(lu, lu), Mul(lv, lv)), Mul(lz, lz))
        lightVec == <<OverMagnitude(lu, len2), OverMagnitude(lv, len2),
                      OverMagnitude(lz, len2)>>
        incident == <<Neg(lightVec[1]), Neg(lightVec[2]), Neg(lightVec[3])>>
        normal   == ShaderNormal(i)
        d        == DotProduct(normal, incident)
        reflectZ == Sub(incident[3], Mul(Mul(Num(2), d), normal[3]))
    IN  Pow(MathMax(Num(0), reflectZ), 20)

\* gl_FragColor of output pixel i
FragColor(i) ==
    LET lu            == rendererObj.lightX
        lv            == rendererObj.lightY
        luminance     == Div(Polynomial(i, lu, lv), Num(255))
        baseLuminance == Div(ShaderCoeff(5, i), Num(255))
        normal        == ShaderNormal(i)
    IN  IF viewModeInt(rendererObj) = 2
        THEN <<Add(Mul(normal[1], Rat(1, 2)), Rat(1, 2)),
               Add(Mul(normal[2], Rat(1, 2)), Rat(1, 2)),
               Add(Mul(normal[3], Rat(1, 2)), Rat(1, 2)), Num(1)>>
        ELSE IF viewModeInt(rendererObj) = 1
        THEN LET lumVariation ==
                     Clamp(Mul(Add(Mul(Sub(luminance, baseLuminance), Num(2)), Rat(1, 2)),
                               rendererObj.specularEnhancement),
                           Num(0), Num(1))
             IN  <<lumVariation, lumVariation, lumVariation, Num(1)>>
        ELSE LET baseColor == ShaderBaseColor(i)
                 ratio     == IF Less(Rat(1, 100), baseLuminance)
                              THEN Quotient(luminance, baseLuminance)
                              ELSE luminance
                 lumRatio  == Clamp(Mul(ratio, rendererObj.diffuseGain), Num(0), Num(2))
                 spec      == Mul(Mul(Specular(i), rendererObj.specularEnhancement),
                                  Rat(3, 10))
             IN  <<Clamp(Add(Mul(baseColor[1], lumRatio), spec), Num(0), Num(1)),
                   Clamp(Add(Mul(baseColor[2], lumRatio), spec), Num(0), Num(1)),
                   Clamp(Add(Mul(baseColor[3], lumRatio), Mul(Rat(95, 100), spec)),
                         Num(0), Num(1)),
                   Num(1)>>

\* C24: in view mode 'normals' each output pixel is the stored normal
\* remapped by n*0.5 + 0.5 per component (the texel of the normal texture),
\* the same for every light direction, specular enhancement, diffuse gain,
\* coefficient planes and base colour.
C24_NormalsModeShowsNormals ==
    (rendererObj.ptmData # 0 /\ rendererObj.viewMode = "normals") =>
        \A i \in 0..(ArrayLength - 1) :
            FragColor(i) = <<Texel(normalData[4 * i]), Texel(normalData[4 * i + 1]),
                             Texel(normalData[4 * i + 2]), Num(1)>>

\* normals mode with the light, both factors, the coefficients and the base
\* colour away from their defaults
C24_Witness ==
    /\ rendererObj.ptmData # 0
    /\ rendererObj.viewMode = "normals"
    /\ rendererObj.lightX = Rat(1, 2) /\ rendererObj.lightY = Num(0 - 1)
    /\ rendererObj.specularEnhancement = Rat(5, 2)
    /\ rendererObj.diffuseGain = Rat(5, 2)
    /\ coefficients[5][0] = Num(2)
    /\ rgb[0] = 255
    /\ normalData[0] = 204 /\ normalData[1] = 25 /\ normalData[2] = 127
    /\ normalData[4] = 127 /\ normalData[6] = 255
    /\ FragColor(0)[1] = Rat(4, 5)

\* C26: the renderer the app holds has not been disposed, so no light,
\* view-mode or slider event is forwarded to a disposed renderer, also after
\* an initViewer that threw once the old renderer was disposed.
C26_HeldRendererNotDisposed == renderer # 0 => ~rendererObj.disposed

\* C27: the loading overlay is shown exactly while at least one load is in
\* flight, also when loads overlap.
C27_OverlayWhileInFlight ==
    loadingOverlay = (\E l \in DOMAIN loads : loads[l].stage = "pending")

\* C28: after every successful initViewer the renderer holds light (0, 0),
\* view mode 'default', specular enhancement 1 and diffuse gain 1, and the
\* light displays, the indicator, the active mode button and both sliders
\* show the same, whatever the settings were before.
C28_InitViewerResetsSettings ==
    [][renderer' = renderer + 1 =>
          /\ rendererObj'.lightX = Num(0) /\ rendererObj'.lightY = Num(0)
          /\ rendererObj'.viewMode = "default"
          /\ rendererObj'.specularEnhancement = Num(1)
          /\ rendererObj'.diffuseGain = Num(1)
          /\ ~rendererObj'.disposed
          /\ lightXDisplay' = Num(0) /\ lightYDisplay' = Num(0)
          /\ lightIndicator' = [left |-> Num(50), top |-> Num(50)]
          /\ activeMode' = "default"
          /\ specularSlider' = Num(1) /\ specularValue' = Num(1)
          /\ diffuseSlider' = Num(1) /\ diffuseValue' = Num(1)]_vars

\* a second image installed during a drag: the drag had moved the light of
\* the first image away from (0, 0) (no pointer position maps to 0), and
\* the light is (0, 0) again
C28_Witness ==
    /\ renderer = 2
    /\ isDragging
    /\ \A pos \in PointerPositions : LightFromEvent(pos)[1] # Num(0)
    /\ rendererObj.ptmData = 2
    /\ rendererObj.lightX = Num(0) /\ rendererObj.lightY = Num(0)
    /\ lightXDisplay = Num(0)
    /\ rendererObj.specularEnhancement = Num(1)

\* the renderer's light direction, the indicator and the light displays
LightState ==
    <<rendererObj.lightX, rendererObj.lightY, lightIndicator, lightXDisplay,
      lightYDisplay>>

\* C29: the light changes on a pointer event only while a drag is active:
\* isDragging becomes true only by a mousedown/touchstart on the light
\* control and false only by a mouseup/touchend, and a step that changes the
\* light direction, the indicator or the displays either belongs to a drag
\* (isDragging holds after it) or is the reset of a successful initViewer; a
\* move while isDragging is false changes none of them.
C29_LightMovesOnlyWhileDragging ==
    [][/\ (~isDragging /\ isDragging') => \E pos \in PointerPositions : StartLightDrag(pos)
       /\ (isDragging /\ ~isDragging') => EndLightDrag
       /\ LightState' # LightState => (isDragging' \/ renderer' = renderer + 1)
       /\ (~isDragging /\ ~isDragging' /\ renderer' = renderer) =>
              LightState' = LightState]_vars

\* a drag moved the light and has ended, so every further move event arrives
\* with isDragging false
C29_Witness ==
    /\ ~isDragging
    /\ section = "viewer"
    /\ renderer # 0
    /\ rendererObj.lightX = Rat(1, 5) /\ rendererObj.lightY = Rat(2, 5)
    /\ lightXDisplay = Rat(1, 5)
    /\ lightIndicator.left = Num(59)

(***************************************************************************)
(* Termination of parse(buffer).  parse() is one async function without a  *)
(* yield in it: once called it runs until it returns or throws, so each of *)
(* its steps is taken when it is enabled (weak fairness of Next).          *)
(***************************************************************************)
\* a complete header cut before its sixth newline, the empty buffer included
TruncatedBuffers ==
    LET header == HeaderBytes(PlainVersion, PTM_FORMAT_LRGB, 1, 1, PlainQuant)
    IN  {SubSeq(header, 1, n) : n \in 0..(Len(header) - 1)}

\* files of one pixel with every version line and every format line, without
\* pixel bytes and with the nine bytes of an LRGB pixel and a tail; the RGB
\* files are the ones without pixel bytes
OnePixelBuffers ==
    {HeaderBytes(v, f, 1, 1, PlainQuant) \o PixelBytes(len) :
        <<v, f, len>> \in
            {t \in VersionLines \X FormatLines
                    \X {0, Required(1, 1, PTM_FORMAT_LRGB) + ExtraBytes} :
                t[2] # PTM_FORMAT_RGB \/ t[3] = 0}}

\* files whose width or height line is not a number, without pixel bytes
NoDimBuffers ==
    {HeaderOf(PlainVersion, f, d[1], d[2], PlainQuant) :
        <<f, d>> \in {PTM_FORMAT_LRGB, PTM_FORMAT_RGB} \X MalformedDimLines}

TerminationBuffers == TruncatedBuffers \cup OnePixelBuffers \cup NoDimBuffers

InitTermination ==
    /\ variant \in Variants
    /\ buffer \in TerminationBuffers
    /\ pc = "header"
    /\ offset = 0
    /\ headerLines = <<>>
    /\ currentLine = <<>>
    /\ version = <<>>
    /\ format = <<>>
    /\ width = Num(0)
    /\ height = Num(0)
    /\ scale = <<>>
    /\ bias = <<>>
    /\ coefficients = <<>>
    /\ rgb = <<>>
    /\ normals = <<>>
    /\ error = "none"
    /\ NoRenderer
    /\ AppConstructed

SpecTermination == InitTermination /\ [][Next]_vars /\ WF_vars(Next)

\* the number of newline bytes of the buffer
Newlines == Cardinality({i \in 1..Len(buffer) : buffer[i] = LF})

\* C30: parse terminates on every finite buffer, returning an image or
\* throwing; on a buffer with fewer than six newline bytes (the empty one
\* included) the header loop ends with an error, never with a header.
C30_ParseTerminates ==
    <>(/\ Finished
       /\ Newlines < 6 => (pc = "failed" /\ error = "RangeError" /\ Len(headerLines) < 6))

\* the header loop ran off a buffer that ends after five complete lines,
\* and off the empty buffer
C30_Witness ==
    /\ pc = "failed"
    /\ error = "RangeError"
    /\ offset = Len(buffer)
    /\ \/ Newlines = 5 /\ Len(headerLines) = 5 /\ currentLine # <<>>
       \/ buffer = <<>> /\ headerLines = <<>>

(***************************************************************************)
(* parseUncompressedPTM with its row loops split into two row ranges.      *)
(* Each worker runs the loops of parseUncompressedPTM as written, with y   *)
(* restricted to its rows first..last, on the shared output arrays         *)
(* coefficients and rgb; the steps of the two workers interleave freely.   *)
(* pc[w] is the position of worker w in the loops.                         *)
(***************************************************************************)
RowWorkers == {1, 2}

RowImageWidths == {1, 2}

RowImageHeights == {2, 3}

\* the position of a worker that starts on the rows first..last
RowStart(first, last) ==
    [loop  |-> IF variant = "interleaved" THEN "rows"
               ELSE IF isLRGB THEN "coef" ELSE "acc",
     c |-> 0, y |-> first, first |-> first, last |-> last]

InitRows ==
    /\ variant \in Variants
    /\ format \in {PTM_FORMAT_LRGB, PTM_FORMAT_RGB}
    /\ width \in {Num(w) : w \in RowImageWidths}
    /\ height \in {Num(h) : h \in RowImageHeights}
    /\ buffer = PixelBytes(Required(width.n, height.n, format))
    /\ offset = 0
    /\ headerLines = <<>>
    /\ currentLine = <<>>
    /\ version = PlainVersion
    /\ \E q \in QuantLines : scale = NumberList(q[1]) /\ bias = NumberList(q[2])
    /\ coefficients = [c \in 0..5 |-> [d \in 0..(ArrayLength - 1) |-> Num(0)]]
    /\ rgb = [j \in 0..(3 * ArrayLength - 1) |-> 0]
    /\ normals = <<>>
    /\ error = "none"
    /\ \E split \in 1..(height.n - 1) :
          pc = [w \in RowWorkers |->
                   IF w = 1 THEN RowStart(0, split - 1)
                   ELSE RowStart(split, height.n - 1)]
    /\ NoRenderer
    /\ AppConstructed

\* plane with Value(x) stored at the output index of every (y, x) of row y
RowStored(plane, y, Value(_)) ==
    [d \in DOMAIN plane |->
        IF \E x \in 0..(W - 1) : DestIdx(y, x) = d
        THEN Value(CHOOSE x \in 0..(W - 1) : DestIdx(y, x) = d)
        ELSE plane[d]]

\* rgb with the three colour bytes of every pixel of row y stored
RgbRowStored(y) ==
    [j \in DOMAIN rgb |->
        IF \E x \in 0..(W - 1) : DestIdx(y, x) = j \div 3
        THEN getUint8(RgbIdx(y, CHOOSE x \in 0..(W - 1) : DestIdx(y, x) = j \div 3, j % 3))
        ELSE rgb[j]]

\* the position after row p.y of a loop over the rows; after the last row
\* the position is after
NextRow(p, after) == IF p.y < p.last THEN [p EXCEPT !.y = p.y + 1] ELSE after

RowFrame ==
    UNCHANGED <<appVars, packVars, variant, buffer, offset, headerLines, currentLine,
                version, format, width, height, scale, bias, normals, error>>

\* interleaved revision, one iteration of for (y ...): the colour and the
\* six coefficients of every pixel of the row
DecodeRow(w) ==
    /\ pc[w].loop = "rows"
    /\ coefficients' =
          [c \in 0..5 |->
              RowStored(coefficients[c], pc[w].y, LAMBDA x : CoefValue(pc[w].y, x, c))]
    /\ rgb' = RgbRowStored(pc[w].y)
    /\ pc' = [pc EXCEPT ![w] = NextRow(@, [@ EXCEPT !.loop = "done"])]
    /\ RowFrame

\* planar revision, LRGB: one row of the coefficient loop
DecodeCoefRow(w) ==
    /\ pc[w].loop = "coef"
    /\ coefficients' =
          [c \in 0..5 |->
              RowStored(coefficients[c], pc[w].y, LAMBDA x : CoefValue(pc[w].y, x, c))]
    /\ pc' = [pc EXCEPT ![w] = NextRow(@, [@ EXCEPT !.loop = "rgb", !.y = pc[w].first])]
    /\ UNCHANGED rgb
    /\ RowFrame

\* the sum the loop over ch leaves in the output plane for the pixel at
\* (y, x): plane 0 stored, planes 1 and 2 added
ChannelSum(y, x, c) ==
    Add(Add(Dequantize(getUint8(PlanarRGBPlaneIdx(y, x, 0, c)), c),
            Dequantize(getUint8(PlanarRGBPlaneIdx(y, x, 1, c)), c)),
        Dequantize(getUint8(PlanarRGBPlaneIdx(y, x, 2, c)), c))

\* plane with Value(y, x) stored for every pixel of the rows first..last
RowsStored(plane, first, last, Value(_, _)) ==
    [d \in DOMAIN plane |->
        IF \E q \in (first..last) \X (0..(W - 1)) : DestIdx(q[1], q[2]) = d
        THEN LET q == CHOOSE r \in (first..last) \X (0..(W - 1)) : DestIdx(r[1], r[2]) = d
             IN  Value(q[1], q[2])
        ELSE plane[d]]

\* planar revision, RGB: for (ch ...) for (y ...) for (x ...) of coefficient
\* c on the worker's rows
AccumulateRows(w) ==
    /\ pc[w].loop = "acc"
    /\ LET p == pc[w]
       IN  /\ coefficients' =
                 [coefficients EXCEPT ![p.c] =
                     RowsStored(@, p.first, p.last,
                                LAMBDA y, x : ChannelSum(y, x, p.c))]
           /\ pc' = [pc EXCEPT ![w] = [p EXCEPT !.loop = "avg"]]
    /\ UNCHANGED rgb
    /\ RowFrame

\* planar revision, RGB: for (i < pixelCount) coefficients[c][i] /= 3
AverageCoefficient(w) ==
    /\ pc[w].loop = "avg"
    /\ LET p == pc[w]
       IN  /\ coefficients' =
                 [coefficients EXCEPT ![p.c] =
                     [d \in DOMAIN @ |-> DivInt(@[d], 3)]]
           /\ pc' = [pc EXCEPT ![w] =
                        IF p.c < 5
                        THEN [p EXCEPT !.loop = "acc", !.c = p.c + 1]
                        ELSE [p EXCEPT !.loop = "rgb", !.y = p.first]]
    /\ UNCHANGED rgb
    /\ RowFrame

\* planar revision: one row of the colour loop
DecodeRgbRow(w) ==
    /\ pc[w].loop = "rgb"
    /\ rgb' = RgbRowStored(pc[w].y)
    /\ pc' = [pc EXCEPT ![w] = NextRow(@, [@ EXCEPT !.loop = "done"])]
    /\ UNCHANGED coefficients
    /\ RowFrame

NextRows ==
    \/ \E w \in RowWorkers : DecodeRow(w)
    \/ \E w \in RowWorkers : DecodeCoefRow(w)
    \/ \E w \in RowWorkers : AccumulateRows(w)
    \/ \E w \in RowWorkers : AverageCoefficient(w)
    \/ \E w \in RowWorkers : DecodeRgbRow(w)

SpecRows == InitRows /\ [][NextRows]_vars

RowsDecoded == \A w \in RowWorkers : pc[w].loop = "done"

====
